---- MODULE Spec2Model ----
(***************************************************************************)
(* A model of the NEAT engine of neat-proc: the innovation registry, the   *)
(* genome with its structural mutations and crossover, reproduction and    *)
(* the population's speciation.                                            *)
(*                                                                         *)
(* Python objects are modelled with their identity: a Genome object is     *)
(* named by its GenomeID (the registry never hands out one twice), a Node  *)
(* or Link object by the `obj` field of its record.  Two entries that      *)
(* carry the same `obj` are one Python object, and a write to it is        *)
(* applied to every genome that holds it.                                  *)
(***************************************************************************)
EXTENDS Integers, Sequences, FiniteSets, TLC

VARIABLES
    innov_record,   \* the shared InnovationRecord
    calls,          \* history: every (operation, key, returned id) of the registry
    genomes,        \* live Genome objects: GenomeID -> [nodes, links, fitness]
    last,           \* history: the operation that was performed last
    population,     \* the Population object: genomes, species, generation, prev_species_info
    infos,          \* live SpeciesInfo objects: species id -> its fields
    params,         \* the Parameters the population was built with
    frame           \* where Population.run / reproduce stands, and their locals

popvars == <<population, infos, params, frame>>

vars == <<innov_record, calls, genomes, last, population, infos, params, frame>>

\* ------------------------------------------------------------------ bounds

\* GenomeParams.inputs / GenomeParams.outputs
inputs == 1
outputs == 1

\* the registry hands out node ids below MaxNodes and link ids below MaxLinks
MaxNodes == 4
MaxLinks == 6
\* genome ids and species ids stay below these
MaxGenomes == 3
MaxSpecies == 2
\* with several genomes the registry stays below XNodes and XLinks
XNodes == 3
XLinks == 5
\* on the bare registry: arguments are 0..MaxArg, and every counter advances
\* at most MaxAlloc times
MaxArg == 1
MaxAlloc == 2

NoOp == [op |-> "none"]

\* no Population has been built, and nothing runs
NoPopulation == [genomes |-> <<>>, species |-> <<>>, generation |-> 0,
                 prev_species_info |-> <<>>]

NoFrame == [pc |-> "idle", itterations |-> 0, best_genome |-> <<>>,
            species_set |-> <<>>, offspring_per_species |-> <<>>,
            offspring |-> <<>>, k |-> 0, slots |-> 0, before |-> <<>>, nmut |-> 0]

\* ------------------------------------------------------- innovation record

\* a registry that does not reserve the ids of the INPUT and OUTPUT nodes
InnovationRecord_NoReserve(i, o) ==
    [nodes_counter |-> 0,
     nodes_record |-> <<>>,
     links_counter |-> 0,
     links_record |-> <<>>,
     species_counter |-> 0,
     genomes_counter |-> 0]

\* InnovationRecord.__init__
InnovationRecord(i, o) ==
    [nodes_counter |-> i + o,
     nodes_record |-> <<>>,
     links_counter |-> 0,
     links_record |-> <<>>,
     species_counter |-> 0,
     genomes_counter |-> 0]

\* a registry that allocates a node id on every call, without the lookup
get_node_id_NoLookup(r, link_to_split) ==
    [id |-> r.nodes_counter,
     rec |-> [r EXCEPT !.nodes_record =
                           [k \in DOMAIN r.nodes_record \cup {link_to_split} |->
                               IF k = link_to_split THEN r.nodes_counter
                               ELSE r.nodes_record[k]],
                       !.nodes_counter = @ + 1]]

\* InnovationRecord.get_node_id: the id and the registry after the call
get_node_id(r, link_to_split) ==
    IF link_to_split \in DOMAIN r.nodes_record
    THEN [id |-> r.nodes_record[link_to_split], rec |-> r]
    ELSE [id |-> r.nodes_counter,
          rec |-> [r EXCEPT !.nodes_record =
                                [k \in DOMAIN r.nodes_record \cup {link_to_split} |->
                                    IF k = link_to_split THEN r.nodes_counter
                                    ELSE r.nodes_record[k]],
                            !.nodes_counter = @ + 1]]

\* a registry that allocates a link id on every call, without the lookup
get_link_id_NoLookup(r, in_node, out_node) ==
    [id |-> r.links_counter,
     rec |-> [r EXCEPT !.links_record =
                           [k \in DOMAIN r.links_record \cup {<<in_node, out_node>>} |->
                               IF k = <<in_node, out_node>> THEN r.links_counter
                               ELSE r.links_record[k]],
                       !.links_counter = @ + 1]]

\* InnovationRecord.get_link_id: the id and the registry after the call
get_link_id(r, in_node, out_node) ==
    IF <<in_node, out_node>> \in DOMAIN r.links_record
    THEN [id |-> r.links_record[<<in_node, out_node>>], rec |-> r]
    ELSE [id |-> r.links_counter,
          rec |-> [r EXCEPT !.links_record =
                                [k \in DOMAIN r.links_record \cup {<<in_node, out_node>>} |->
                                    IF k = <<in_node, out_node>> THEN r.links_counter
                                    ELSE r.links_record[k]],
                            !.links_counter = @ + 1]]

\* InnovationRecord.get_species_id
get_species_id(r) ==
    [id |-> r.species_counter, rec |-> [r EXCEPT !.species_counter = @ + 1]]

\* InnovationRecord.get_genome_id
get_genome_id(r) ==
    [id |-> r.genomes_counter, rec |-> [r EXCEPT !.genomes_counter = @ + 1]]

\* ------------------------------------------------------------------ genes

\* the values get_initial_bias returns, and the values a bias, a weight and a
\* fitness can take
InitBiases == {0}
Biases == {0, 1}
Weights == {1, 2}
Fitnesses == {0, 1}

Min(S) == CHOOSE x \in S : \A y \in S : x <= y

\* the identity of an object that genome g creates at key k of its nodes or
\* links: one that no other genome holds there
FreshObj(G, g, field, k) ==
    LET used == {G[h][field][k].obj :
                    h \in {h \in DOMAIN G \ {g} : k \in DOMAIN G[h][field]}}
    IN <<g, Min({v \in 0..Cardinality(used) : <<g, v>> \notin used})>>

\* Node(id, traits, node_type)
Node(obj, id, node_type, bias) ==
    [obj |-> obj, id |-> id, node_type |-> node_type, bias |-> bias]

\* Link(id, in_node, out_node, traits): enabled, not frozen
Link(obj, id, in_node, out_node, weight) ==
    [obj |-> obj, id |-> id, in_node |-> in_node, out_node |-> out_node,
     weight |-> weight, enabled |-> TRUE, frozen |-> FALSE]

\* Link.simple_link
simple_link(l) == <<l.in_node, l.out_node>>

\* self.nodes[node.id] = node / self.links[link.id] = link in genome g
PutNode(G, g, node) ==
    [G EXCEPT ![g].nodes =
        [k \in DOMAIN G[g].nodes \cup {node.id} |->
            IF k = node.id THEN node ELSE G[g].nodes[k]]]

PutLink(G, g, link) ==
    [G EXCEPT ![g].links =
        [k \in DOMAIN G[g].links \cup {link.id} |->
            IF k = link.id THEN link ELSE G[g].links[k]]]

\* an assignment to an attribute of the Link object that genome g holds at
\* key k: every genome holding that object sees it
WriteLink(G, g, k, attr, value) ==
    LET o == G[g].links[k].obj IN
    [h \in DOMAIN G |->
        IF k \in DOMAIN G[h].links /\ G[h].links[k].obj = o
        THEN [G[h] EXCEPT !.links[k][attr] = value]
        ELSE G[h]]

\* the same for the Node object that genome g holds at key k
WriteNode(G, g, k, attr, value) ==
    LET o == G[g].nodes[k].obj IN
    [h \in DOMAIN G |->
        IF k \in DOMAIN G[h].nodes /\ G[h].nodes[k].obj = o
        THEN [G[h] EXCEPT !.nodes[k][attr] = value]
        ELSE G[h]]

\* ----------------------------------------------------------------- genome

\* Genome.get_nodes_by_type, as the set of node ids
get_nodes_by_type(gen, node_type) ==
    {n \in DOMAIN gen.nodes : gen.nodes[n].node_type = node_type}

\* Genome.create_new_link: the Link and the registry after get_link_id
create_new_link(G, r, g, in_node, out_node, weight) ==
    LET res == get_link_id(r, in_node, out_node) IN
    [link |-> Link(FreshObj(G, g, "links", res.id), res.id, in_node, out_node, weight),
     rec |-> res.rec]

\* Genome.create_new_node: a HIDDEN node with default traits (bias b)
create_new_node(G, r, g, link_to_split, b) ==
    LET res == get_node_id(r, link_to_split) IN
    [node |-> Node(FreshObj(G, g, "nodes", res.id), res.id, "hidden", b),
     rec |-> res.rec]

\* the loop of initialize_default_genome over the (input, output) pairs not
\* yet linked, in the order of the two loops
RECURSIVE InitLinks(_, _, _, _)
InitLinks(G, r, g, pairs) ==
    IF pairs = <<>> THEN [G |-> G, rec |-> r]
    ELSE LET c == create_new_link(G, r, g, pairs[1][1], pairs[1][2], 1)
         IN InitLinks(PutLink(G, g, c.link), c.rec, g, Tail(pairs))

\* the pairs (input, output) in the order initialize_default_genome visits
\* them, for a genome of i inputs and o outputs
IOPairsOf(i, o) ==
    [n \in 1..(i * o) |-> <<(n - 1) \div o, i + ((n - 1) % o)>>]

IOPairs == IOPairsOf(inputs, outputs)

\* Genome.__init__ with no nodes and no links, and initialize_default_genome,
\* with params.inputs = i and params.outputs = o
default_genome(G, r, g, b, i, o) ==
    LET io == [n \in 0..(i + o - 1) |->
                  Node(<<g, 0>>, n, IF n < i THEN "input" ELSE "output", b)]
        G0 == [h \in DOMAIN G \cup {g} |->
                  IF h = g THEN [nodes |-> <<>>, links |-> <<>>, fitness |-> 0]
                  ELSE G[h]]
        built == InitLinks(G0, r, g, IOPairsOf(i, o))
    IN [G |-> [built.G EXCEPT ![g].nodes = io], rec |-> built.rec]

initialize_default_genome(G, r, g, b) == default_genome(G, r, g, b, inputs, outputs)

\* creates_cycle: visited grows by the targets of the links leaving it until
\* the test's source is met or a pass adds nothing
RECURSIVE cycle_search(_, _, _)
cycle_search(connections, visited, i) ==
    LET added == {c[2] : c \in {c \in connections :
                                   c[1] \in visited /\ c[2] \notin visited}}
    IN IF i \in added THEN TRUE
       ELSE IF added = {} THEN FALSE
       ELSE cycle_search(connections, visited \cup added, i)

creates_cycle(connections, test) ==
    IF test[1] = test[2] THEN TRUE
    ELSE cycle_search(connections, {test[2]}, test[1])

\* Genome.mutate_add_node with link_to_split the random choice and b the
\* bias of the new node
mutate_add_node(G, r, g, link_to_split, b) ==
    LET l == G[g].links[link_to_split]
        G1 == WriteLink(G, g, link_to_split, "enabled", FALSE)
        n == create_new_node(G1, r, g, l.id, b)
        G2 == PutNode(G1, g, n.node)
        first == create_new_link(G2, n.rec, g, l.in_node, n.node.id, 1)
        G3 == PutLink(G2, g, first.link)
        second == create_new_link(G3, first.rec, g, n.node.id, l.out_node, l.weight)
    IN [G |-> PutLink(G3, g, second.link), rec |-> second.rec]

\* a delete that pops the node and leaves the links at it
mutate_delete_node_KeepLinks(G, g, node) ==
    [G EXCEPT ![g].nodes = [k \in DOMAIN G[g].nodes \ {node} |-> G[g].nodes[k]]]

\* Genome.mutate_delete_node with node the random choice among the hidden nodes
mutate_delete_node(G, g, node) ==
    LET keep == {k \in DOMAIN G[g].links :
                    node \notin {G[g].links[k].in_node, G[g].links[k].out_node}}
    IN [G EXCEPT ![g].links = [k \in keep |-> G[g].links[k]],
                 ![g].nodes = [k \in DOMAIN G[g].nodes \ {node} |-> G[g].nodes[k]]]

\* an add-link that asks the registry for the link id before it tests the pair
mutate_add_link_IdFirst(G, r, g, in_node, out_node) ==
    LET conns == {simple_link(G[g].links[k]) : k \in DOMAIN G[g].links}
        c == create_new_link(G, r, g, in_node, out_node, 1)
    IN IF in_node = out_node THEN [G |-> G, rec |-> c.rec]
       ELSE IF <<in_node, out_node>> \in conns THEN [G |-> G, rec |-> c.rec]
       ELSE IF creates_cycle(conns, <<in_node, out_node>>) THEN [G |-> G, rec |-> c.rec]
       ELSE [G |-> PutLink(G, g, c.link), rec |-> c.rec]

\* Genome.mutate_add_link with in_node and out_node the two random choices
mutate_add_link(G, r, g, in_node, out_node) ==
    LET conns == {simple_link(G[g].links[k]) : k \in DOMAIN G[g].links} IN
    IF in_node = out_node THEN [G |-> G, rec |-> r]
    ELSE IF <<in_node, out_node>> \in conns THEN [G |-> G, rec |-> r]
    ELSE IF creates_cycle(conns, <<in_node, out_node>>) THEN [G |-> G, rec |-> r]
    ELSE LET c == create_new_link(G, r, g, in_node, out_node, 1)
         IN [G |-> PutLink(G, g, c.link), rec |-> c.rec]

\* Genome.mutate_delete_link with link the random choice
mutate_delete_link(G, g, link) ==
    [G EXCEPT ![g].links = [k \in DOMAIN G[g].links \ {link} |-> G[g].links[k]]]

\* Genome.mutate_toggle_enable with link the random choice
mutate_toggle_enable(G, g, link) ==
    LET l == G[g].links[link]
        same_in == {k \in DOMAIN G[g].links : G[g].links[k].in_node = l.in_node}
    IN IF ~l.enabled THEN WriteLink(G, g, link, "enabled", TRUE)
       ELSE IF Cardinality(same_in) >= 2 THEN WriteLink(G, g, link, "enabled", FALSE)
       ELSE G

\* Gene.crossover of two Link objects: every attribute comes from one of the
\* two, and the result is a new object
link_crossover(l1, l2, obj) ==
    {[obj |-> obj, id |-> i, in_node |-> a, out_node |-> b,
      weight |-> w, enabled |-> e, frozen |-> f] :
        i \in {l1.id, l2.id}, a \in {l1.in_node, l2.in_node},
        b \in {l1.out_node, l2.out_node}, w \in {l1.weight, l2.weight},
        e \in {l1.enabled, l2.enabled}, f \in {l1.frozen, l2.frozen}}

\* Gene.crossover of two Node objects
node_crossover(n1, n2, obj) ==
    {[obj |-> obj, id |-> i, node_type |-> t, bias |-> b] :
        i \in {n1.id, n2.id}, t \in {n1.node_type, n2.node_type},
        b \in {n1.bias, n2.bias}}

\* every way to pick one candidate per key
RECURSIVE Choices(_)
Choices(cands) ==
    IF DOMAIN cands = {} THEN {<<>>}
    ELSE LET k == CHOOSE k \in DOMAIN cands : TRUE
             rest == Choices([j \in DOMAIN cands \ {k} |-> cands[j]])
         IN {[j \in DOMAIN cands |-> IF j = k THEN c ELSE f[j]] :
                c \in cands[k], f \in rest}

\* a crossover that makes the other parent the primary one on equal fitness
primary_parent_TieToOther(G, self, other) ==
    IF G[self].fitness <= G[other].fitness THEN other ELSE self

\* Genome.crossover: the primary parent is self unless other is strictly fitter
primary_parent(G, self, other) ==
    IF G[self].fitness < G[other].fitness THEN other ELSE self

secondary_parent(G, self, other) ==
    IF primary_parent(G, self, other) = self THEN other ELSE self

\* Genome.crossover, the loop over the primary parent's links: the link maps
\* the child can get
crossover_links(G, self, other, child) ==
    LET p == G[primary_parent(G, self, other)].links
        s == G[secondary_parent(G, self, other)].links
    IN Choices([k \in DOMAIN p |->
                   IF k \in DOMAIN s
                   THEN link_crossover(p[k], s[k], <<child, 0>>)
                   ELSE {[p[k] EXCEPT !.obj = <<child, 0>>]}])

\* Genome.crossover, the loop over the primary parent's nodes
crossover_nodes(G, self, other, child) ==
    LET p == G[primary_parent(G, self, other)].nodes
        s == G[secondary_parent(G, self, other)].nodes
    IN Choices([k \in DOMAIN p |->
                   IF k \in DOMAIN s
                   THEN node_crossover(p[k], s[k], <<child, 0>>)
                   ELSE {[p[k] EXCEPT !.obj = <<child, 0>>]}])

\* Genome(id, innov_record, nodes, links) with nodes or links given
NewGenomeWith(G, id, nodes, links) ==
    [h \in DOMAIN G \cup {id} |->
        IF h = id THEN [nodes |-> nodes, links |-> links, fitness |-> 0]
        ELSE G[h]]

\* ---------------------------------------- the registry driven by any caller

InitInnov ==
    /\ innov_record = InnovationRecord(inputs, outputs)
    /\ calls = {}
    /\ genomes = <<>>
    /\ last = NoOp
    /\ population = NoPopulation
    /\ infos = <<>>
    /\ params = <<>>
    /\ frame = NoFrame

CallGetNodeId ==
    \E l \in 0..MaxArg :
        LET res == get_node_id(innov_record, l) IN
        /\ res.rec.nodes_counter <= inputs + outputs + MaxAlloc
        /\ innov_record' = res.rec
        /\ calls' = calls \cup {[op |-> "node", key |-> <<l>>, id |-> res.id]}
        /\ last' = [op |-> "get_node_id", key |-> <<l>>, id |-> res.id]
        /\ UNCHANGED <<genomes, popvars>>

CallGetLinkId ==
    \E a \in 0..MaxArg, b \in 0..MaxArg :
        LET res == get_link_id(innov_record, a, b) IN
        /\ res.rec.links_counter <= MaxAlloc
        /\ innov_record' = res.rec
        /\ calls' = calls \cup {[op |-> "link", key |-> <<a, b>>, id |-> res.id]}
        /\ last' = [op |-> "get_link_id", key |-> <<a, b>>, id |-> res.id]
        /\ UNCHANGED <<genomes, popvars>>

CallGetSpeciesId ==
    LET res == get_species_id(innov_record) IN
    /\ res.rec.species_counter <= MaxAlloc
    /\ innov_record' = res.rec
    /\ calls' = calls \cup {[op |-> "species", key |-> <<>>, id |-> res.id]}
    /\ last' = [op |-> "get_species_id", key |-> <<>>, id |-> res.id]
    /\ UNCHANGED <<genomes, popvars>>

CallGetGenomeId ==
    LET res == get_genome_id(innov_record) IN
    /\ res.rec.genomes_counter <= MaxAlloc
    /\ innov_record' = res.rec
    /\ calls' = calls \cup {[op |-> "genome", key |-> <<>>, id |-> res.id]}
    /\ last' = [op |-> "get_genome_id", key |-> <<>>, id |-> res.id]
    /\ UNCHANGED <<genomes, popvars>>

NextInnov ==
    \/ CallGetNodeId
    \/ CallGetLinkId
    \/ CallGetSpeciesId
    \/ CallGetGenomeId

SpecInnov == InitInnov /\ [][NextInnov]_vars

\* C1: on one registry, get_link_id(a, b) returns the id every earlier
\* get_link_id(a, b) returned, and get_node_id(L) the id every earlier
\* get_node_id(L) returned, whatever other registry operations came between.
C1_SameKeySameId ==
    \A x \in calls, y \in calls :
        (x.op \in {"node", "link"} /\ x.op = y.op /\ x.key = y.key) => x.id = y.id

\* a link key and a node key have each been asked for again after other
\* operations allocated ids
C1_Witness ==
    /\ last.op = "get_link_id"
    /\ last.id + 1 < innov_record.links_counter
    /\ innov_record.nodes_counter > inputs + outputs + 1
    /\ innov_record.species_counter > 0
    /\ innov_record.genomes_counter > 0
    /\ \E x \in calls : x.op = "node" /\ x.id + 1 < innov_record.nodes_counter

\* ------------------------------- genomes under mutations and crossovers

InitGenomes ==
    /\ innov_record = InnovationRecord(inputs, outputs)
    /\ calls = {}
    /\ genomes = <<>>
    /\ last = NoOp
    /\ population = NoPopulation
    /\ infos = <<>>
    /\ params = <<>>
    /\ frame = NoFrame

\* what an action leaves in `last`: the operation with its arguments, or (with
\* several genomes) only that a step was made
Log(full, entry) == IF full THEN entry ELSE [op |-> "step"]

\* the registry stays within nb node ids and lb link ids
Within(r, nb, lb) == r.nodes_counter <= nb /\ r.links_counter <= lb

\* Population._get_new_genome
NewGenome(gb) ==
    LET id == get_genome_id(innov_record) IN
    /\ id.rec.genomes_counter <= gb
    /\ \E b \in InitBiases :
        LET res == initialize_default_genome(genomes, id.rec, id.id, b) IN
        /\ genomes' = res.G
        /\ innov_record' = res.rec
    /\ last' = [op |-> "step"]
    /\ UNCHANGED <<calls, popvars>>

AddNode(nb, lb, full) ==
    \E g \in DOMAIN genomes, b \in InitBiases :
        \E l \in DOMAIN genomes[g].links :
            LET res == mutate_add_node(genomes, innov_record, g, l, b) IN
            /\ Within(res.rec, nb, lb)
            /\ genomes' = res.G
            /\ innov_record' = res.rec
            /\ last' = Log(full, [op |-> "mutate_add_node", g |-> g, link |-> l])
            /\ UNCHANGED <<calls, popvars>>

DeleteNode(full) ==
    \E g \in DOMAIN genomes :
        \E n \in get_nodes_by_type(genomes[g], "hidden") :
            /\ genomes' = mutate_delete_node(genomes, g, n)
            /\ last' = Log(full, [op |-> "mutate_delete_node", g |-> g, node |-> n])
            /\ UNCHANGED <<innov_record, calls, popvars>>

AddLink(nb, lb, full) ==
    \E g \in DOMAIN genomes :
        \E i \in DOMAIN genomes[g].nodes \ get_nodes_by_type(genomes[g], "output"),
           o \in DOMAIN genomes[g].nodes \ get_nodes_by_type(genomes[g], "input") :
            LET res == mutate_add_link(genomes, innov_record, g, i, o) IN
            /\ Within(res.rec, nb, lb)
            /\ genomes' = res.G
            /\ innov_record' = res.rec
            /\ last' = Log(full, [op |-> "mutate_add_link", g |-> g, in_node |-> i, out_node |-> o])
            /\ UNCHANGED <<calls, popvars>>

DeleteLink(full) ==
    \E g \in DOMAIN genomes :
        \E l \in DOMAIN genomes[g].links :
            /\ genomes' = mutate_delete_link(genomes, g, l)
            /\ last' = Log(full, [op |-> "mutate_delete_link", g |-> g, link |-> l])
            /\ UNCHANGED <<innov_record, calls, popvars>>

ToggleEnable(full) ==
    \E g \in DOMAIN genomes :
        \E l \in DOMAIN genomes[g].links :
            /\ genomes' = mutate_toggle_enable(genomes, g, l)
            /\ last' = Log(full, [op |-> "mutate_toggle_enable", g |-> g, link |-> l])
            /\ UNCHANGED <<innov_record, calls, popvars>>

\* the early returns: mutate_add_node, mutate_delete_link and
\* mutate_toggle_enable at `if not self.links: return`, mutate_delete_node at
\* `if not hidden_nodes: return`
EarlyReturn(full) ==
    \E g \in DOMAIN genomes,
       op \in {"mutate_add_node", "mutate_delete_node",
               "mutate_delete_link", "mutate_toggle_enable"} :
        /\ IF op = "mutate_delete_node"
           THEN get_nodes_by_type(genomes[g], "hidden") = {}
           ELSE DOMAIN genomes[g].links = {}
        /\ last' = Log(full, [op |-> op, g |-> g])
        /\ UNCHANGED <<genomes, innov_record, calls, popvars>>

\* the fitness function's result is assigned to a genome
Evaluate(full) ==
    \E g \in DOMAIN genomes, f \in Fitnesses :
        /\ genomes[g].fitness # f
        /\ genomes' = [genomes EXCEPT ![g].fitness = f]
        /\ last' = Log(full, [op |-> "evaluate", g |-> g])
        /\ UNCHANGED <<innov_record, calls, popvars>>

\* a.crossover(b)
Crossover(gb) ==
    \E a \in DOMAIN genomes, b \in DOMAIN genomes :
        LET id == get_genome_id(innov_record) IN
        /\ id.rec.genomes_counter <= gb
        /\ \E links \in crossover_links(genomes, a, b, id.id),
              nodes \in crossover_nodes(genomes, a, b, id.id) :
            genomes' = NewGenomeWith(genomes, id.id, nodes, links)
        /\ innov_record' = id.rec
        /\ last' = [op |-> "crossover", self |-> a, other |-> b, child |-> id.id]
        /\ UNCHANGED <<calls, popvars>>

\* one default genome under any sequence of the structural mutations
NewGenomeM == NewGenome(1)
AddNodeM == AddNode(MaxNodes, MaxLinks, TRUE)
DeleteNodeM == DeleteNode(TRUE)
AddLinkM == AddLink(MaxNodes, MaxLinks, TRUE)
DeleteLinkM == DeleteLink(TRUE)
ToggleEnableM == ToggleEnable(TRUE)
EarlyReturnM == EarlyReturn(TRUE)

NextMutate ==
    \/ NewGenomeM
    \/ AddNodeM
    \/ DeleteNodeM
    \/ AddLinkM
    \/ DeleteLinkM
    \/ ToggleEnableM
    \/ EarlyReturnM

SpecMutate == InitGenomes /\ [][NextMutate]_vars

\* several genomes of one registry under mutations and crossovers
NewGenomeX == NewGenome(MaxGenomes)
AddNodeX == AddNode(XNodes, XLinks, FALSE)
DeleteNodeX == DeleteNode(FALSE)
AddLinkX == AddLink(XNodes, XLinks, FALSE)
DeleteLinkX == DeleteLink(FALSE)
ToggleEnableX == ToggleEnable(FALSE)
EvaluateX == Evaluate(FALSE)
CrossoverX == Crossover(MaxGenomes)

Next ==
    \/ NewGenomeX
    \/ AddNodeX
    \/ DeleteNodeX
    \/ AddLinkX
    \/ DeleteLinkX
    \/ ToggleEnableX
    \/ EvaluateX
    \/ CrossoverX

Spec == InitGenomes /\ [][Next]_vars

\* ------------------------------------------------- properties of genomes

\* the nodes reachable from the set S along the edges E
RECURSIVE ReachFrom(_, _)
ReachFrom(E, S) ==
    LET T == S \cup {e[2] : e \in {e \in E : e[1] \in S}}
    IN IF T = S THEN S ELSE ReachFrom(E, T)

\* E has a directed cycle
Cyclic(E) == \E e \in E : e[1] \in ReachFrom(E, {e[2]})

EnabledLinks(gen) ==
    {simple_link(gen.links[k]) : k \in {k \in DOMAIN gen.links : gen.links[k].enabled}}

HiddenNodes(gen) == get_nodes_by_type(gen, "hidden")

\* C2: after any sequence of structural mutations of a default genome, the
\* graph of the genome's enabled links has no cycle.
C2_EnabledAcyclic ==
    \A g \in DOMAIN genomes : ~Cyclic(EnabledLinks(genomes[g]))

\* C3: in every genome reached by mutations and crossovers, the in_node and the
\* out_node of every link are keys of the genome's nodes.
C3_EndpointsAreNodes ==
    \A g \in DOMAIN genomes :
        \A k \in DOMAIN genomes[g].links :
            /\ genomes[g].links[k].in_node \in DOMAIN genomes[g].nodes
            /\ genomes[g].links[k].out_node \in DOMAIN genomes[g].nodes

\* a crossover child of a genome whose hidden node was deleted together with
\* the links at it: the split link is all that is left
C3_Witness ==
    /\ last.op = "crossover"
    /\ innov_record.nodes_counter > inputs + outputs
    /\ HiddenNodes(genomes[last.self]) = {}
    /\ DOMAIN genomes[last.child].links = {0}
    /\ ~genomes[last.child].links[0].enabled

\* C4: every genome holds an INPUT node for each id 0..inputs-1 and an OUTPUT
\* node for each id inputs..inputs+outputs-1, whatever mutations and crossovers
\* made it.
C4_InputsOutputsPresent ==
    \A g \in DOMAIN genomes :
        /\ \A n \in 0..(inputs - 1) :
            n \in DOMAIN genomes[g].nodes /\ genomes[g].nodes[n].node_type = "input"
        /\ \A n \in inputs..(inputs + outputs - 1) :
            n \in DOMAIN genomes[g].nodes /\ genomes[g].nodes[n].node_type = "output"

\* a crossover of a genome with a hidden node and one that lost its hidden node
C4_Witness ==
    /\ last.op = "crossover"
    /\ last.self # last.other
    /\ HiddenNodes(genomes[last.self]) # {}
    /\ HiddenNodes(genomes[last.other]) = {}
    /\ \E k \in DOMAIN genomes[last.other].links : ~genomes[last.other].links[k].enabled

\* the (in_node, out_node) pairs of a genome's links
Pairs(gen) == {simple_link(gen.links[k]) : k \in DOMAIN gen.links}

\* C5: no genome reached by mutations and crossovers holds two enabled links
\* with the same (in_node, out_node), and no step gives a genome a new link
\* whose pair was already among its links.
C5_PairsUnique ==
    [][/\ \A g \in DOMAIN genomes' :
            \A j \in DOMAIN genomes'[g].links, k \in DOMAIN genomes'[g].links :
                (j # k /\ genomes'[g].links[j].enabled /\ genomes'[g].links[k].enabled)
                    => simple_link(genomes'[g].links[j]) # simple_link(genomes'[g].links[k])
       /\ \A g \in DOMAIN genomes :
            \A k \in DOMAIN genomes'[g].links \ DOMAIN genomes[g].links :
                simple_link(genomes'[g].links[k]) \notin Pairs(genomes[g])]_vars

\* the child of two parents that hold the same three links and differ in which
\* of them are enabled
C5_Witness ==
    /\ last.op = "crossover"
    /\ last.self # last.other
    /\ Cardinality(DOMAIN genomes[last.child].links) = 3
    /\ DOMAIN genomes[last.self].links = DOMAIN genomes[last.other].links
    /\ \E k \in DOMAIN genomes[last.self].links :
        genomes[last.self].links[k].enabled # genomes[last.other].links[k].enabled

\* C6: the child of a.crossover(b) has node ids and link ids among those of
\* the primary parent (b when b is strictly fitter, else a), and the step
\* leaves both parents as they were.
C6_ChildWithinPrimary ==
    [][(last'.op = "crossover" /\ last'.child \notin DOMAIN genomes) =>
        LET a == last'.self
            b == last'.other
            p == IF genomes[b].fitness > genomes[a].fitness THEN b ELSE a
            child == genomes'[last'.child]
        IN /\ DOMAIN child.nodes \subseteq DOMAIN genomes[p].nodes
           /\ DOMAIN child.links \subseteq DOMAIN genomes[p].links
           /\ genomes'[a] = genomes[a]
           /\ genomes'[b] = genomes[b]]_vars

\* a crossover of parents of equal fitness where the second one has genes the
\* first has not
C6_Witness ==
    /\ last.op = "crossover"
    /\ genomes[last.self].fitness = genomes[last.other].fitness
    /\ DOMAIN genomes[last.other].links \ DOMAIN genomes[last.self].links # {}
    /\ DOMAIN genomes[last.other].nodes \ DOMAIN genomes[last.self].nodes # {}
    /\ DOMAIN genomes[last.child].links = DOMAIN genomes[last.self].links

\* ------------------------------------------------------------ arithmetic

\* fractions are pairs <<numerator, denominator>> with a positive denominator
Max(S) == CHOOSE x \in S : \A y \in S : x >= y

Abs(x) == IF x < 0 THEN -x ELSE x

\* math.ceil(p / q)
Ceil(p, q) == -((-p) \div q)

\* int(round(p / q)): Python rounds a half to the even neighbour
Round(p, q) ==
    LET f == p \div q
        r == p % q
    IN IF 2 * r < q THEN f
       ELSE IF 2 * r > q THEN f + 1
       ELSE IF f % 2 = 0 THEN f ELSE f + 1

\* a < b for fractions
Less(a, b) == a[1] * b[2] < b[1] * a[2]

\* sum(...) and the product of the values of a function with a finite domain
RECURSIVE SumOf(_)
SumOf(f) ==
    IF DOMAIN f = {} THEN 0
    ELSE LET k == CHOOSE k \in DOMAIN f : TRUE
         IN f[k] + SumOf([j \in DOMAIN f \ {k} |-> f[j]])

RECURSIVE ProductOf(_)
ProductOf(f) ==
    IF DOMAIN f = {} THEN 1
    ELSE LET k == CHOOSE k \in DOMAIN f : TRUE
         IN f[k] * ProductOf([j \in DOMAIN f \ {k} |-> f[j]])

\* ------------------------------------------------------------- parameters

\* ReproductionParams.population is 0..MaxPopulation, min_species_size is
\* 0..MaxMinSize, elitism is 0..MaxElitism and elitism_threshold is
\* 1..MaxThreshold
MaxPopulation == 2
MaxMinSize == 2
MaxElitism == 2
MaxThreshold == 2
\* a call of reproduce starts from at most RGenomes genomes, and at most
\* MaxMutations of the random draws of its mutate calls fire
RGenomes == 2
MaxMutations == 1

SurvivalRates == {<<1, 2>>, <<1, 1>>}

\* --------------------------------------------------------------- species

\* SpeciesInfo(id, representative)
SpeciesInfo(representative) ==
    [representative |-> representative, age |-> 0,
     previous_fitness |-> <<0, 1>>, stagnant |-> 0]

\* list.sort(key=lambda g: g.fitness, reverse=True): a stable sort, so a genome
\* goes behind the ones that are at least as fit
RECURSIVE sort_genomes_by_fitness(_, _)
sort_genomes_by_fitness(G, list) ==
    IF list = <<>> THEN <<>>
    ELSE LET n == Len(list)
             done == sort_genomes_by_fitness(G, SubSeq(list, 1, n - 1))
             x == list[n]
             before == {i \in 1..(n - 1) : G[done[i]].fitness >= G[x].fitness}
             at == IF before = {} THEN 0 ELSE Max(before)
         IN SubSeq(done, 1, at) \o <<x>> \o SubSeq(done, at + 1, n - 1)

\* Species.kill_worst
kill_worst(list, survival_rate) ==
    LET remaining == Max({Ceil(Len(list) * survival_rate[1], survival_rate[2]), 1})
    IN SubSeq(list, 1, Min({remaining, Len(list)}))

\* Species.elites: genomes[:count]
elites(list, count) == SubSeq(list, 1, Min({count, Len(list)}))

\* ---------------------------------------------------------- reproduction

\* reproduce, the adjusted fitness of every species: (msf - min) / range
adjusted_fitnesses(G, species_set) ==
    LET all == UNION {{G[species_set[i][j]].fitness : j \in 1..Len(species_set[i])} :
                         i \in 1..Len(species_set)}
        min_fitness == Min(all)
        max_fitness == Max(all)
        fitness_range == Max({1, max_fitness - min_fitness})
    IN [i \in 1..Len(species_set) |->
           LET size == Len(species_set[i])
               total == SumOf([j \in 1..size |-> G[species_set[i][j]].fitness])
           IN <<total - size * min_fitness, size * fitness_range>>]

\* compute_offspring_per_species, the first list: the share of every species
\* in the population by its adjusted fitness, or equal shares when every
\* adjusted fitness is zero
genomes_spawn_counts(adjusted, p) ==
    LET D == ProductOf([i \in DOMAIN adjusted |-> adjusted[i][2]])
        a == [i \in DOMAIN adjusted |-> adjusted[i][1] * (D \div adjusted[i][2])]
        adj_fitness_sum == SumOf(a)
    IN IF adj_fitness_sum # 0
       THEN [i \in DOMAIN adjusted |->
                Max({p.min_species_size, Ceil(p.population * a[i], adj_fitness_sum)})]
       ELSE [i \in DOMAIN adjusted |-> Ceil(p.population, Len(adjusted))]

\* the last line of compute_offspring_per_species: the counts are scaled by
\* norm = population / sum(offspring_per_species) and rounded
normalised(spawn, p) ==
    [i \in DOMAIN spawn |->
        Max({p.min_species_size, Round(spawn[i] * p.population, SumOf(spawn))})]

\* an allocation that does not raise the rounded counts to min_species_size
compute_offspring_per_species_NoFloor(adjusted, p) ==
    [i \in DOMAIN adjusted |->
        Round(genomes_spawn_counts(adjusted, p)[i] * p.population,
              SumOf(genomes_spawn_counts(adjusted, p)))]

\* compute_offspring_per_species
compute_offspring_per_species(adjusted, p) ==
    normalised(genomes_spawn_counts(adjusted, p), p)

\* ------------------------------------------------------ Genome.mutate

\* an outcome of the random draws made so far: the genomes, the registry, the
\* number of draws that fired and the methods they called, in call order
Fired(s, G, rec, op) ==
    [G |-> G, rec |-> rec, n |-> s.n + 1, ops |-> Append(s.ops, op)]

\* if random.random() < node_deletion_chance: self.mutate_delete_node()
draw_delete_node(s, g, budget) ==
    {s} \cup
    IF s.n < budget
    THEN {Fired(s, mutate_delete_node(s.G, g, node), s.rec, "mutate_delete_node") :
             node \in get_nodes_by_type(s.G[g], "hidden")}
    ELSE {}

\* if random.random() < node_addition_chance: self.mutate_add_node()
draw_add_node(s, g, budget) ==
    {s} \cup
    IF s.n < budget
    THEN {LET res == mutate_add_node(s.G, s.rec, g, c[1], c[2])
          IN Fired(s, res.G, res.rec, "mutate_add_node") :
             c \in (DOMAIN s.G[g].links) \X InitBiases}
    ELSE {}

\* if random.random() < link_addition_chance: self.mutate_add_link()
draw_add_link(s, g, budget) ==
    {s} \cup
    IF s.n < budget
    THEN {LET res == mutate_add_link(s.G, s.rec, g, c[1], c[2])
          IN Fired(s, res.G, res.rec, "mutate_add_link") :
             c \in (DOMAIN s.G[g].nodes \ get_nodes_by_type(s.G[g], "output"))
                   \X (DOMAIN s.G[g].nodes \ get_nodes_by_type(s.G[g], "input"))}
    ELSE {}

\* if random.random() < link_deletion_chance: self.mutate_delete_link()
draw_delete_link(s, g, budget) ==
    {s} \cup
    IF s.n < budget
    THEN {Fired(s, mutate_delete_link(s.G, g, link), s.rec, "mutate_delete_link") :
             link \in DOMAIN s.G[g].links}
    ELSE {}

\* if random.random() < link_toggle_chance: self.mutate_toggle_enable()
draw_toggle_enable(s, g, budget) ==
    {s} \cup
    IF s.n < budget
    THEN {Fired(s, mutate_toggle_enable(s.G, g, link), s.rec, "mutate_toggle_enable") :
             link \in DOMAIN s.G[g].links}
    ELSE {}

\* Genome.mutate_node: the bias of the Node object is assigned a new value
mutate_node(s, g, node, budget) ==
    {s} \cup
    IF s.n < budget
    THEN {Fired(s, WriteNode(s.G, g, node, "bias", b), s.rec, "mutate_node") :
             b \in Biases \ {s.G[g].nodes[node].bias}}
    ELSE {}

\* Genome.mutate_link: the weight of the Link object is assigned a new value,
\* unless the link is frozen
mutate_link(s, g, link, budget) ==
    {s} \cup
    IF s.n < budget /\ ~s.G[g].links[link].frozen
    THEN {Fired(s, WriteLink(s.G, g, link, "weight", w), s.rec, "mutate_link") :
             w \in Weights \ {s.G[g].links[link].weight}}
    ELSE {}

\* for node in self.nodes.values(): self.mutate_node(node)
RECURSIVE mutate_nodes(_, _, _, _)
mutate_nodes(S, g, keys, budget) ==
    IF keys = {} THEN S
    ELSE LET k == Min(keys)
         IN mutate_nodes(UNION {mutate_node(s, g, k, budget) : s \in S},
                         g, keys \ {k}, budget)

\* for link in self.links.values(): self.mutate_link(link)
RECURSIVE mutate_links(_, _, _, _)
mutate_links(S, g, keys, budget) ==
    IF keys = {} THEN S
    ELSE LET k == Min(keys)
         IN mutate_links(UNION {mutate_link(s, g, k, budget) : s \in S},
                         g, keys \ {k}, budget)

\* Genome.mutate of genome g: every outcome of its draws, at most budget of
\* which fire
mutate(G, rec, g, budget) ==
    LET s0 == {[G |-> G, rec |-> rec, n |-> 0, ops |-> <<>>]}
        s1 == UNION {draw_delete_node(s, g, budget) : s \in s0}
        s2 == UNION {draw_add_node(s, g, budget) : s \in s1}
        s3 == UNION {draw_add_link(s, g, budget) : s \in s2}
        s4 == UNION {draw_delete_link(s, g, budget) : s \in s3}
        s5 == UNION {draw_toggle_enable(s, g, budget) : s \in s4}
        s6 == UNION {mutate_nodes({s}, g, DOMAIN s.G[g].nodes, budget) : s \in s5}
    IN UNION {mutate_links({s}, g, DOMAIN s.G[g].links, budget) : s \in s6}

\* --------------------------------------------------- reproduce, by steps

Range(f) == {f[i] : i \in DOMAIN f}

RECURSIVE SortedSeq(_)
SortedSeq(S) ==
    IF S = {} THEN <<>> ELSE <<Min(S)>> \o SortedSeq(S \ {Min(S)})

\* the genomes that _get_new_genome builds one after the other, with the
\* initial biases drawn for them
RECURSIVE new_genomes(_, _, _)
new_genomes(G, r, biases) ==
    IF biases = <<>> THEN [G |-> G, rec |-> r]
    ELSE LET id == get_genome_id(r)
             res == initialize_default_genome(G, id.rec, id.id, Head(biases))
         IN new_genomes(res.G, res.rec, Tail(biases))

\* the ReproductionParams a call of reproduce is checked with
ReproductionParams ==
    [population : 0..MaxPopulation,
     min_species_size : 0..MaxMinSize,
     elitism : 0..MaxElitism,
     elitism_threshold : 1..MaxThreshold,
     survival_rate : SurvivalRates]

\* reproduce is called with a non-empty species set: up to RGenomes evaluated
\* genomes, split into up to MaxSpecies species
InitRepro ==
    \E n \in 1..RGenomes :
        \E biases \in [1..n -> InitBiases], fit \in [0..(n - 1) -> Fitnesses],
           a \in [0..(n - 1) -> 1..MaxSpecies], p \in ReproductionParams :
            LET m == Max(Range(a))
                built == new_genomes(<<>>, InnovationRecord(inputs, outputs), biases)
                G == [g \in DOMAIN built.G |-> [built.G[g] EXCEPT !.fitness = fit[g]]]
                species == [i \in 1..m |->
                               [id |-> i - 1,
                                genomes |-> SortedSeq({g \in 0..(n - 1) : a[g] = i})]]
            IN /\ \A g \in 0..(n - 1) :
                    a[g] <= 1 + Max({a[h] : h \in 0..(g - 1)} \cup {0})
               /\ genomes = G
               /\ innov_record = [built.rec EXCEPT !.species_counter = m]
               /\ infos = [id \in 0..(m - 1) |-> SpeciesInfo(species[id + 1].genomes[1])]
               /\ population =
                    [genomes |-> sort_genomes_by_fitness(G, SortedSeq(0..(n - 1))),
                     species |-> species,
                     generation |-> 0,
                     prev_species_info |-> [i \in 1..m |-> i - 1]]
               /\ params = p
               /\ frame = [NoFrame EXCEPT !.pc = "reproduce",
                                          !.species_set = [i \in 1..m |-> i]]
               /\ calls = {}
               /\ last = NoOp

\* the Species object that reproduce's loop is at
CurrentSpecies == population.species[frame.species_set[frame.k]]

\* the loop over the species goes on to the next species, or reproduce returns
NextSpecies(f) ==
    IF f.k = Len(f.species_set) THEN [f EXCEPT !.pc = "returned"]
    ELSE [f EXCEPT !.pc = "species", !.k = @ + 1]

\* reproduce up to its loop over the species: every species gets its adjusted
\* fitness, the offspring are allocated, and every species is sorted and
\* loses its worst genomes; the division by sum(offspring_per_species) raises
\* ZeroDivisionError when every count is zero
ReproduceBegin ==
    /\ frame.pc = "reproduce"
    /\ \E adjusted \in
            {adjusted_fitnesses(genomes,
                [i \in 1..Len(frame.species_set) |->
                    population.species[frame.species_set[i]].genomes])} :
        LET set == frame.species_set
            at(id) == CHOOSE i \in 1..Len(set) : population.species[set[i]].id = id
        IN /\ infos' = [id \in DOMAIN infos |->
                           IF \E i \in 1..Len(set) : population.species[set[i]].id = id
                           THEN [infos[id] EXCEPT !.previous_fitness = adjusted[at(id)]]
                           ELSE infos[id]]
           /\ IF SumOf(genomes_spawn_counts(adjusted, params)) = 0
              THEN /\ frame' = [frame EXCEPT !.pc = "error"]
                   /\ UNCHANGED population
              ELSE /\ population' =
                        [population EXCEPT !.species =
                            [i \in 1..Len(population.species) |->
                                IF i \in Range(set)
                                THEN [population.species[i] EXCEPT !.genomes =
                                         kill_worst(sort_genomes_by_fitness(genomes, @),
                                                    params.survival_rate)]
                                ELSE population.species[i]]]
                   /\ frame' = [frame EXCEPT
                                   !.pc = "species", !.k = 1, !.slots = 0, !.nmut = 0,
                                   !.offspring = <<>>,
                                   !.offspring_per_species =
                                       compute_offspring_per_species(adjusted, params),
                                   !.before = genomes]
    /\ last' = [op |-> "step"]
    /\ UNCHANGED <<innov_record, calls, genomes, params>>

\* the head of the loop body: a species of at least elitism_threshold genomes
\* puts its elites into the offspring, and they count against its allocation
ReproduceElites ==
    /\ frame.pc = "species"
    /\ LET list == CurrentSpecies.genomes
           chosen == IF Len(list) >= params.elitism_threshold
                     THEN elites(list, params.elitism) ELSE <<>>
           offspring_num == frame.offspring_per_species[frame.k] - Len(chosen)
           f == [frame EXCEPT !.offspring = @ \o chosen]
       IN frame' = IF offspring_num <= 0 THEN NextSpecies(f)
                   ELSE [f EXCEPT !.pc = "breed", !.slots = offspring_num]
    /\ last' = [op |-> "step"]
    /\ UNCHANGED <<innov_record, calls, genomes, population, infos, params>>

\* the child has been mutated and is appended to the offspring
AfterChild(child, fired) ==
    LET f == [frame EXCEPT !.offspring = Append(@, child), !.slots = @ - 1,
                           !.nmut = @ + fired]
    IN IF f.slots = 0 THEN NextSpecies(f) ELSE f

\* one pass of the inner loop with random.random() < crossover_rate: parent2
\* comes from any species of the set or from the same species
BreedCrossover ==
    /\ frame.pc = "breed"
    /\ \E parent1 \in Range(CurrentSpecies.genomes),
          parent2 \in UNION {Range(population.species[i].genomes) :
                                i \in Range(frame.species_set)} :
        LET id == get_genome_id(innov_record) IN
        \E links \in crossover_links(genomes, parent1, parent2, id.id),
           nodes \in crossover_nodes(genomes, parent1, parent2, id.id) :
            \E s \in mutate(NewGenomeWith(genomes, id.id, nodes, links), id.rec,
                            id.id, MaxMutations - frame.nmut) :
                /\ genomes' = s.G
                /\ innov_record' = s.rec
                /\ frame' = AfterChild(id.id, s.n)
                /\ last' = [op |-> "crossover", self |-> parent1,
                            other |-> parent2, child |-> id.id]
    /\ UNCHANGED <<calls, population, infos, params>>

\* one pass of the inner loop without crossover: the child gets
\* copy.copy(parent1.nodes) and copy.copy(parent1.links), new dicts that hold
\* the parent's Node and Link objects
BreedCopy ==
    /\ frame.pc = "breed"
    /\ \E parent1 \in Range(CurrentSpecies.genomes) :
        LET id == get_genome_id(innov_record) IN
        \E s \in mutate(NewGenomeWith(genomes, id.id, genomes[parent1].nodes,
                                      genomes[parent1].links),
                        id.rec, id.id, MaxMutations - frame.nmut) :
            /\ genomes' = s.G
            /\ innov_record' = s.rec
            /\ frame' = AfterChild(id.id, s.n)
            /\ last' = [op |-> "copy", parent |-> parent1, child |-> id.id]
    /\ UNCHANGED <<calls, population, infos, params>>

NextRepro ==
    \/ ReproduceBegin
    \/ ReproduceElites
    \/ BreedCrossover
    \/ BreedCopy

SpecRepro == InitRepro /\ [][NextRepro]_vars

\* ------------------------------------------------ properties of reproduce

\* the elites of the species at position i of the set, as reproduce takes them
ElitesOf(i) ==
    LET list == population.species[frame.species_set[i]].genomes
    IN IF Len(list) >= params.elitism_threshold
       THEN Range(elites(list, params.elitism)) ELSE {}

C9_ElitesUnchanged ==
    frame.pc = "returned" =>
        \A i \in 1..Len(frame.species_set) :
            \A e \in ElitesOf(i) :
                /\ e \in Range(frame.offspring)
                /\ genomes[e].nodes = frame.before[e].nodes
                /\ genomes[e].links = frame.before[e].links

\* C10: a step of reproduce that makes a child by the copy branch and mutates
\* it leaves every gene of the parent as it was.
C10_CopyLeavesParent ==
    [][(frame.pc = "breed" /\ last'.op = "copy") =>
          /\ genomes'[last'.parent].nodes = genomes[last'.parent].nodes
          /\ genomes'[last'.parent].links = genomes[last'.parent].links]_vars

\* -------------------------------------------------------------- speciate

\* Genome.params: the one dataclass field of Genome, a class attribute that
\* initialize_configuration sets for every genome
Genome_params(g) == [inputs |-> inputs, outputs |-> outputs]

\* Genome.__eq__, as @dataclass makes it: the tuples of the fields are compared
Genome_eq(a, b) == <<Genome_params(a)>> = <<Genome_params(b)>>

\* list.remove(x): the first item that is x or equals x goes
list_remove(list, x) ==
    LET i == Min({j \in 1..Len(list) : list[j] = x \/ Genome_eq(list[j], x)})
    IN SubSeq(list, 1, i - 1) \o SubSeq(list, i + 1, Len(list))

\* Node.distance and Link.distance, over the attributes of the model
Node_distance(n1, n2) == Abs(n1.bias - n2.bias)

Link_distance(l1, l2) ==
    Abs(l1.weight - l2.weight)
    + (IF l1.enabled # l2.enabled THEN 1 ELSE 0)
    + (IF l1.frozen # l2.frozen THEN 1 ELSE 0)

\* get_genomes_distance, as a fraction
get_genomes_distance(genome1, genome2, p) ==
    LET cn == DOMAIN genome1.nodes \cap DOMAIN genome2.nodes
        node_distance ==
            SumOf([k \in cn |-> Node_distance(genome1.nodes[k], genome2.nodes[k])])
        disjoint_nodes ==
            Cardinality(DOMAIN genome1.nodes \ cn)
            + Cardinality(DOMAIN genome2.nodes) - Cardinality(cn)
        max_nodes == Max({Cardinality(DOMAIN genome1.nodes),
                          Cardinality(DOMAIN genome2.nodes)})
        nodes_part ==
            IF max_nodes = 0 THEN <<0, 1>>
            ELSE <<node_distance + p.compatibility_disjoint_coefficient * disjoint_nodes,
                   max_nodes>>
        cl == DOMAIN genome1.links \cap DOMAIN genome2.links
        link_distance ==
            SumOf([k \in cl |-> Link_distance(genome1.links[k], genome2.links[k])])
        disjoint_links ==
            Cardinality(DOMAIN genome1.links \ cl)
            + Cardinality(DOMAIN genome2.links) - Cardinality(cl)
        max_links == Max({Cardinality(DOMAIN genome1.links),
                          Cardinality(DOMAIN genome2.links)})
        links_part ==
            IF max_links = 0 THEN <<0, 1>>
            ELSE <<link_distance + p.compatibility_disjoint_coefficient * disjoint_links,
                   max_links>>
    IN <<nodes_part[1] * links_part[2] + links_part[1] * nodes_part[2],
         nodes_part[2] * links_part[2]>>

\* min(candidates, key=...): among the positions in S, the first one with the
\* smallest distance
first_min(d, S) ==
    CHOOSE i \in S :
        /\ \A j \in S : ~Less(d[j], d[i])
        /\ \A j \in S : j < i => Less(d[i], d[j])

\* Population.select_new_representatives: ok is FALSE when min() is called on
\* an empty list
RECURSIVE select_new_representatives(_, _, _, _, _)
select_new_representatives(G, unspeciated, prev, I, p) ==
    IF prev = <<>> THEN [ok |-> TRUE, unspeciated |-> unspeciated, infos |-> I]
    ELSE IF unspeciated = <<>>
    THEN [ok |-> FALSE, unspeciated |-> unspeciated, infos |-> I]
    ELSE LET representative == I[Head(prev)].representative
             d == [i \in 1..Len(unspeciated) |->
                      get_genomes_distance(G[representative], G[unspeciated[i]], p)]
             best_candidate == unspeciated[first_min(d, 1..Len(unspeciated))]
         IN select_new_representatives(
                G, list_remove(unspeciated, best_candidate), Tail(prev),
                [I EXCEPT ![Head(prev)].representative = best_candidate], p)

\* Population.speciate, the loop over the unspeciated genomes: a genome joins
\* the closest species whose representative is nearer than the threshold, or
\* founds a species
RECURSIVE assign_genomes(_, _, _, _, _, _)
assign_genomes(G, r, unspeciated, species, I, p) ==
    IF unspeciated = <<>>
    THEN [ok |-> TRUE, species |-> species, infos |-> I, rec |-> r]
    ELSE LET genome == Head(unspeciated)
             d == [i \in 1..Len(species) |->
                      get_genomes_distance(G[I[species[i].id].representative],
                                           G[genome], p)]
             candidates == {i \in 1..Len(species) :
                               Less(d[i], p.compatibility_threshold)}
         IN IF candidates # {}
            THEN assign_genomes(
                     G, r, Tail(unspeciated),
                     [species EXCEPT ![first_min(d, candidates)].genomes =
                                         Append(@, genome)],
                     I, p)
            ELSE LET id == get_species_id(r)
                 IN assign_genomes(
                        G, id.rec, Tail(unspeciated),
                        Append(species, [id |-> id.id, genomes |-> <<genome>>]),
                        [k \in DOMAIN I \cup {id.id} |->
                            IF k = id.id THEN SpeciesInfo(genome) ELSE I[k]],
                        p)

\* info.add_age() for every info of prev_species_info
add_age(I, prev) ==
    [k \in DOMAIN I |-> IF k \in Range(prev) THEN [I[k] EXCEPT !.age = @ + 1] ELSE I[k]]

\* Species(info): the species starts with its representative
Species(id, I) == [id |-> id, genomes |-> <<I[id].representative>>]

\* Population.speciate once the representatives are selected: the species of
\* prev_species_info are built again with their age raised, and the
\* unspeciated genomes are assigned
speciate_selected(G, r, unspeciated, prev, aged, p) ==
    assign_genomes(G, r, unspeciated,
                   [i \in 1..Len(prev) |-> Species(prev[i], aged)], aged, p)

\* Population.speciate from the result sel of select_new_representatives
speciate_from(G, r, sel, prev, I, p) ==
    IF sel.ok
    THEN speciate_selected(G, r, sel.unspeciated, prev, add_age(sel.infos, prev), p)
    ELSE [ok |-> FALSE, species |-> <<>>, infos |-> I, rec |-> r]

\* Population.speciate over the genomes in list, with prev the ids of
\* prev_species_info
speciate(G, r, list, prev, I, p) ==
    speciate_from(G, r, select_new_representatives(G, list, prev, I, p), prev, I, p)

\* ------------------------------------------------------------ Population

\* NEATParams.population, ReproductionParams.max_stagnation and the `times`
\* that run is called with
PopSize == 2
MaxStagnation == 1
Times == 1
\* run makes at most MaxRounds + 1 passes of its loop
MaxRounds == 1
\* a Population has min_species_size in 0..PopMinSize and elitism in
\* 0..PopElitism
PopMinSize == 1
PopElitism == 1

\* the Parameters a Population is built with
Parameters ==
    [neat_population : {PopSize},
     population : 1..PopSize,
     min_species_size : 0..PopMinSize,
     elitism : 0..PopElitism,
     elitism_threshold : 1..MaxThreshold,
     survival_rate : SurvivalRates,
     max_stagnation : {-1, MaxStagnation},
     reset_on_extinction : BOOLEAN,
     fitness_threshold : {Max(Fitnesses)},
     compatibility_threshold : {<<1, 1>>},
     compatibility_disjoint_coefficient : {1},
     times : {Times}]

\* Population.__init__ and reset: a new registry, neat_population default
\* genomes, and their species; run has been called
InitPopulation(PS) ==
    \E p \in PS :
        \E biases \in [1..p.neat_population -> InitBiases] :
            \E built \in {new_genomes(<<>>, InnovationRecord(inputs, outputs), biases)} :
            \E sp \in {speciate(built.G, built.rec, [i \in 1..p.neat_population |-> i - 1],
                                <<>>, <<>>, p)} :
               /\ genomes = built.G
               /\ innov_record = sp.rec
               /\ infos = sp.infos
               /\ population =
                    [genomes |-> [i \in 1..p.neat_population |-> i - 1],
                     species |-> sp.species,
                     generation |-> 0,
                     prev_species_info |->
                         [i \in 1..Len(sp.species) |-> sp.species[i].id]]
               /\ params = p
               /\ frame = [NoFrame EXCEPT !.pc = "loop"]
               /\ calls = {}
               /\ last = NoOp

InitPop == InitPopulation(Parameters)

\* a filter that also drops the species whose counter is at max_stagnation
RECURSIVE filter_stagnant_species_DropAtMax(_, _, _)
filter_stagnant_species_DropAtMax(species_set, I, p) ==
    IF species_set = <<>> THEN <<>>
    ELSE LET n == Len(species_set)
             first == filter_stagnant_species_DropAtMax(SubSeq(species_set, 1, n - 1), I, p)
         IN IF I[species_set[n].id].stagnant >= p.max_stagnation THEN first
            ELSE Append(first, n)

\* filter_stagnant_species: the positions of the species that stay
RECURSIVE filter_stagnant_species(_, _, _)
filter_stagnant_species(species_set, I, p) ==
    IF species_set = <<>> THEN <<>>
    ELSE LET n == Len(species_set)
             first == filter_stagnant_species(SubSeq(species_set, 1, n - 1), I, p)
         IN IF I[species_set[n].id].stagnant > p.max_stagnation THEN first
            ELSE Append(first, n)

\* Population.evaluate with fit the values the fitness function returns
evaluate(G, fit) ==
    [g \in DOMAIN G |->
        IF g \in DOMAIN fit THEN [G[g] EXCEPT !.fitness = fit[g]] ELSE G[g]]

\* a run that keeps the first best genome it has set
pick_best_KeepFirst(G, candidate_best_genome, best_genome) ==
    IF best_genome = <<>> THEN candidate_best_genome ELSE best_genome[1]

\* if not best_genome or self.genomes[0].fitness > best_genome.fitness:
\*     best_genome = candidate_best_genome
pick_best(G, candidate_best_genome, best_genome) ==
    IF best_genome = <<>>
       \/ G[candidate_best_genome].fitness > G[best_genome[1]].fitness
    THEN candidate_best_genome ELSE best_genome[1]

\* one pass of run's loop up to the call of reproduce: the genomes are
\* evaluated and sorted, the best genome is kept, and the run ends when it
\* reaches the fitness threshold; else the stagnant species are dropped, and
\* the RuntimeError of filter_stagnant_species leaves run (run does not read
\* params.neat.reset_on_extinction)
RunGeneration ==
    /\ frame.pc = "loop"
    /\ ~(params.times # 0 /\ frame.itterations > params.times)
    /\ frame.itterations <= MaxRounds
    /\ \E fit \in [Range(population.genomes) -> Fitnesses] :
        LET G == evaluate(genomes, fit)
            sorted == sort_genomes_by_fitness(G, population.genomes)
            best_genome == pick_best(G, sorted[1], frame.best_genome)
            species == filter_stagnant_species(population.species, infos, params)
        IN /\ genomes' = G
           /\ IF sorted = <<>>
              THEN /\ frame' = [frame EXCEPT !.pc = "error"]
                   /\ last' = [op |-> "raise", error |-> "IndexError"]
                   /\ UNCHANGED population
              ELSE IF G[best_genome].fitness >= params.fitness_threshold
              THEN /\ frame' = [frame EXCEPT !.pc = "done",
                                             !.best_genome = <<best_genome>>]
                   /\ last' = [op |-> "return"]
                   /\ population' = [population EXCEPT !.genomes = sorted]
              ELSE IF species = <<>>
              THEN /\ frame' = [frame EXCEPT !.pc = "error",
                                             !.best_genome = <<best_genome>>]
                   /\ last' = [op |-> "raise", error |-> "no remaining species"]
                   /\ population' = [population EXCEPT !.genomes = sorted]
              ELSE /\ frame' = [frame EXCEPT !.pc = "reproduce",
                                             !.best_genome = <<best_genome>>,
                                             !.species_set = species]
                   /\ last' = [op |-> "step"]
                   /\ population' =
                        [population EXCEPT
                            !.genomes = sorted,
                            !.prev_species_info =
                                [i \in 1..Len(species) |->
                                    population.species[species[i]].id]]
    /\ UNCHANGED <<innov_record, calls, infos, params>>

\* if times and itterations > times: break
RunBreak ==
    /\ frame.pc = "loop"
    /\ params.times # 0 /\ frame.itterations > params.times
    /\ frame' = [frame EXCEPT !.pc = "done"]
    /\ last' = [op |-> "step"]
    /\ UNCHANGED <<innov_record, calls, genomes, population, infos, params>>

\* the objects that can still be reached once the offspring are the
\* population: the offspring, the representatives and the best genome
Live(list, I, best) ==
    Range(list) \cup {I[k].representative : k \in DOMAIN I} \cup Range(best)

\* reproduce has returned: its offspring become the population, which is
\* speciated, and the generation ends
RunSpeciate ==
    /\ frame.pc = "returned"
    /\ \E sp \in {speciate(genomes, innov_record, frame.offspring,
                            population.prev_species_info, infos, params)} :
       LET ids == [i \in 1..Len(sp.species) |-> sp.species[i].id]
           I == [k \in Range(ids) |-> sp.infos[k]]
       IN IF sp.ok
          THEN /\ population' =
                    [genomes |-> frame.offspring,
                     species |-> sp.species,
                     generation |-> population.generation + 1,
                     prev_species_info |-> ids]
               /\ infos' = I
               /\ innov_record' = sp.rec
               /\ genomes' = [g \in Live(frame.offspring, I, frame.best_genome) |->
                                 genomes[g]]
               /\ frame' = [NoFrame EXCEPT !.pc = "loop",
                                           !.itterations = frame.itterations + 1,
                                           !.best_genome = frame.best_genome]
          ELSE /\ frame' = [frame EXCEPT !.pc = "error"]
               /\ population' = [population EXCEPT !.genomes = frame.offspring]
               /\ UNCHANGED <<innov_record, genomes, infos>>
    /\ last' = [op |-> "step"]
    /\ UNCHANGED <<calls, params>>

NextPop ==
    \/ RunGeneration
    \/ RunBreak
    \/ ReproduceBegin
    \/ ReproduceElites
    \/ BreedCrossover
    \/ BreedCopy
    \/ RunSpeciate

SpecPop == InitPop /\ [][NextPop]_vars

\* ------------------------------------------------- properties of speciate

\* the species of the population that genome g is a member of
SpeciesOf(g) ==
    {i \in 1..Len(population.species) : g \in Range(population.species[i].genomes)}

\* C7: after the speciate call of reset and after every speciate call of run,
\* every genome of the population is a member of exactly one species, and
\* every member of a species is a genome of the population.
C7_SpeciesPartition ==
    frame.pc = "loop" =>
        /\ \A g \in Range(population.genomes) : Cardinality(SpeciesOf(g)) = 1
        /\ \A i \in 1..Len(population.species) :
            Range(population.species[i].genomes) \subseteq Range(population.genomes)

\* ------------------------------------- default genomes on one registry

\* params.inputs is in 1..MaxInputs and params.outputs in 1..MaxOutputs; at
\* most MaxDefault genomes are built, and the mutations between them allocate
\* at most ExtraNodes node ids and ExtraLinks link ids
MaxInputs == 2
MaxOutputs == 2
MaxDefault == 2
ExtraNodes == 1
ExtraLinks == 2

\* InnovationRecord(params.inputs, params.outputs) and no genome yet
InitDefault ==
    /\ \E i \in 1..MaxInputs, o \in 1..MaxOutputs :
        /\ innov_record = InnovationRecord(i, o)
        /\ params = [inputs |-> i, outputs |-> o]
    /\ calls = {}
    /\ genomes = <<>>
    /\ last = NoOp
    /\ population = NoPopulation
    /\ infos = <<>>
    /\ frame = NoFrame

\* Genome(get_genome_id(), innov_record)
NewDefault ==
    LET id == get_genome_id(innov_record) IN
    /\ id.rec.genomes_counter <= MaxDefault
    /\ \E b \in InitBiases :
        LET res == default_genome(genomes, id.rec, id.id, b,
                                  params.inputs, params.outputs) IN
        /\ genomes' = res.G
        /\ innov_record' = res.rec
    /\ last' = [op |-> "new", genome |-> id.id]
    /\ UNCHANGED <<calls, popvars>>

AddNodeD ==
    AddNode(params.inputs + params.outputs + ExtraNodes,
            params.inputs * params.outputs + ExtraLinks, FALSE)

DeleteLinkD == DeleteLink(FALSE)

NextDefault ==
    \/ NewDefault
    \/ AddNodeD
    \/ DeleteLinkD

SpecDefault == InitDefault /\ [][NextDefault]_vars

C12_AddNodeSplitsEnabled ==
    [][(last'.op = "mutate_add_node" /\ DOMAIN genomes[last'.g].links # {}) =>
        LET g == last'.g
            L == genomes[g].links[last'.link]
            new == get_node_id(innov_record, L.id).id
            before == genomes[g]
            after == genomes'[g]
            first == {k \in DOMAIN after.links :
                        /\ simple_link(after.links[k]) = <<L.in_node, new>>
                        /\ after.links[k].weight = 1}
            second == {k \in DOMAIN after.links :
                        /\ simple_link(after.links[k]) = <<new, L.out_node>>
                        /\ after.links[k].weight = L.weight}
        IN /\ L.enabled
           /\ ~after.links[L.id].enabled
           /\ new \in DOMAIN after.nodes
           /\ first # {}
           /\ second # {}
           /\ \A n \in DOMAIN before.nodes \ {new} :
                n \in DOMAIN after.nodes /\ after.nodes[n] = before.nodes[n]
           /\ \A k \in DOMAIN before.links \ ({L.id} \cup first \cup second) :
                k \in DOMAIN after.links /\ after.links[k] = before.links[k]
           /\ DOMAIN after.nodes \subseteq DOMAIN before.nodes \cup {new}
           /\ DOMAIN after.links \subseteq DOMAIN before.links \cup first \cup second
    ]_vars

\* the structural mutation logged in last' cannot be completed in genome gen:
\* no link to split, delete or toggle, no hidden node to delete, or a pair
\* for a new link that is equal, present or closes a cycle
Uncompletable(gen, l) ==
    \/ /\ l.op \in {"mutate_add_node", "mutate_delete_link", "mutate_toggle_enable"}
       /\ DOMAIN gen.links = {}
    \/ /\ l.op = "mutate_delete_node"
       /\ HiddenNodes(gen) = {}
    \/ /\ l.op = "mutate_add_link"
       /\ \/ l.in_node = l.out_node
          \/ <<l.in_node, l.out_node>> \in Pairs(gen)
          \/ l.in_node \in ReachFrom(Pairs(gen), {l.out_node})

StructuralOps ==
    {"mutate_add_node", "mutate_delete_node", "mutate_add_link",
     "mutate_delete_link", "mutate_toggle_enable"}

\* C13: a structural mutation that cannot be completed leaves the nodes and
\* links of every genome and the innovation registry as they were
C13_UncompletedIsNoOp ==
    [][(last'.op \in StructuralOps /\ Uncompletable(genomes[last'.g], last')) =>
          /\ genomes' = genomes
          /\ innov_record' = innov_record]_vars

\* mutate_add_link has just rejected a pair of distinct nodes, not yet linked,
\* because the new link would close a cycle
C13_Witness ==
    /\ last.op = "mutate_add_link"
    /\ last.in_node # last.out_node
    /\ <<last.in_node, last.out_node>> \notin Pairs(genomes[last.g])
    /\ last.in_node \in ReachFrom(Pairs(genomes[last.g]), {last.out_node})

\* ------------------------------------------- creates_cycle on any list

\* the lists hold at most MaxConn links over the nodes 0..CNodes-1
CNodes == 4
MaxConn == 3

\* `for a, b in connections` from position k on: the pass ends at the first
\* link that leaves visited and enters i, and else adds the targets of the
\* links that leave visited as it meets them
RECURSIVE for_connections(_, _, _, _, _)
for_connections(connections, k, visited, num_added, i) ==
    IF k > Len(connections)
    THEN [found |-> FALSE, visited |-> visited, num_added |-> num_added]
    ELSE IF connections[k][1] \in visited /\ connections[k][2] \notin visited
    THEN IF connections[k][2] = i
         THEN [found |-> TRUE, visited |-> visited, num_added |-> num_added]
         ELSE for_connections(connections, k + 1, visited \cup {connections[k][2]},
                              num_added + 1, i)
    ELSE for_connections(connections, k + 1, visited, num_added, i)

\* the result of one pass, and the `while True` around the passes; passes
\* counts the passes made
RECURSIVE while_true(_, _, _, _)
after_pass(connections, r, i, passes) ==
    IF r.found THEN [result |-> TRUE, passes |-> passes]
    ELSE IF r.num_added = 0 THEN [result |-> FALSE, passes |-> passes]
    ELSE while_true(connections, r.visited, i, passes + 1)

while_true(connections, visited, i, passes) ==
    after_pass(connections, for_connections(connections, 1, visited, 0, i), i, passes)

\* a search that makes one pass over the list and answers from it
creates_cycle_OnePass(connections, test) ==
    IF test[1] = test[2] THEN [result |-> TRUE, passes |-> 0]
    ELSE [result |-> for_connections(connections, 1, {test[2]}, 0, test[1]).found,
          passes |-> 1]

\* creates_cycle(connections, test) on a list, with the number of passes of
\* its loop
creates_cycle_list(connections, test) ==
    IF test[1] = test[2] THEN [result |-> TRUE, passes |-> 0]
    ELSE while_true(connections, {test[2]}, test[1], 1)

\* the lists of at most n links over the nodes
RECURSIVE Lists(_)
Lists(n) ==
    IF n = 0 THEN {<<>>}
    ELSE Lists(n - 1) \cup
         {Append(l, c) : l \in {l \in Lists(n - 1) : Len(l) = n - 1},
                         c \in (0..(CNodes - 1)) \X (0..(CNodes - 1))}

\* a caller holds a list of links and a candidate link
InitCycle ==
    /\ \E connections \in Lists(MaxConn),
          test \in (0..(CNodes - 1)) \X (0..(CNodes - 1)) :
        last = [op |-> "arguments", connections |-> connections, test |-> test]
    /\ innov_record = InnovationRecord(inputs, outputs)
    /\ calls = {}
    /\ genomes = <<>>
    /\ population = NoPopulation
    /\ infos = <<>>
    /\ params = <<>>
    /\ frame = NoFrame

\* creates_cycle(connections, test)
CallCreatesCycle ==
    /\ last.op = "arguments"
    /\ \E r \in {creates_cycle_list(last.connections, last.test)} :
        last' = [op |-> "creates_cycle", connections |-> last.connections,
                 test |-> last.test, result |-> r.result, passes |-> r.passes]
    /\ UNCHANGED <<innov_record, calls, genomes, popvars>>

SpecCycle == InitCycle /\ [][CallCreatesCycle]_vars

\* C14: creates_cycle ends (after at most one pass per node that can be
\* added, and one more) and answers true exactly when i = o or i is reachable
\* from o along the links of the list, cyclic or not
C14_CreatesCycleIsReachability ==
    last.op = "creates_cycle" =>
        /\ last.result <=>
              \/ last.test[1] = last.test[2]
              \/ last.test[1] \in ReachFrom(Range(last.connections), {last.test[2]})
        /\ last.passes <= Cardinality(Range([k \in DOMAIN last.connections |->
                                                last.connections[k][2]])) + 1

\* the list [(0,2),(2,3),(3,2)] holds a cycle and the candidate (1,0) closes
\* none: the search has ended with the answer false
C14_Witness ==
    /\ last.op = "creates_cycle"
    /\ last.connections = <<<<0, 2>>, <<2, 3>>, <<3, 2>>>>
    /\ last.test = <<1, 0>>
    /\ ~last.result

\* the search over the set of links that the genome's mutate_add_link uses
\* answers as the search over the list in any order
CyclesAgree ==
    last.op = "creates_cycle" =>
        last.result = creates_cycle(Range(last.connections), last.test)

\* ------------------------------------- get_genomes_distance on floats

\* A float of the model keeps Significand bits of a non-negative value (a
\* Python float keeps 53), and a dict keeps its items in insertion order:
\* here a genome's nodes and links are the sequences of their items.
Significand == 3

\* the weights of the links, exact floats of the model
DWeights == {0, 1, 7}

\* the result of a float operation whose exact value is p / q: the nearest
\* float, a tie going to the even significand
RECURSIVE exponent(_, _, _)
exponent(p, q, e) ==
    IF p < (2 ^ (Significand + e)) * q THEN e ELSE exponent(p, q, e + 1)

fl(p, q) == (2 ^ exponent(p, q, 0)) * Round(p, q * (2 ^ exponent(p, q, 0)))

\* Node.distance and Link.distance on floats
float_Node_distance(n1, n2) == fl(Abs(n1.bias - n2.bias), 1)

float_Link_distance(l1, l2) ==
    LET d0 == fl(Abs(l1.weight - l2.weight), 1)
        d1 == IF l1.enabled # l2.enabled THEN fl(d0 + 1, 1) ELSE d0
    IN IF l1.frozen # l2.frozen THEN fl(d1 + 1, 1) ELSE d1

\* dict.get(id) on the items of a dict
HasKey(items, id) == \E j \in DOMAIN items : items[j].id = id
Get(items, id) == items[CHOOSE j \in DOMAIN items : items[j].id = id]

\* `distance += term` for every term, in the order of the terms
RECURSIVE float_sum(_, _)
float_sum(terms, acc) ==
    IF terms = <<>> THEN acc
    ELSE float_sum(Tail(terms), fl(acc + Head(terms), 1))

\* (distance + compatibility_disjoint_coefficient * disjoint) / max(len, len)
\* for the items of genome1 in their order, or 0.0 when both dicts are empty
float_part(terms, len1, len2, p) ==
    IF len1 = 0 /\ len2 = 0 THEN 0
    ELSE LET disjoint == (len1 - Len(terms)) + (len2 - Len(terms))
         IN fl(fl(float_sum(terms, 0)
                  + fl(p.compatibility_disjoint_coefficient * disjoint, 1), 1),
               Max({len1, len2}))

\* get_genomes_distance
float_genomes_distance(genome1, genome2, p) ==
    LET cn == SelectSeq(genome1.nodes, LAMBDA n : HasKey(genome2.nodes, n.id))
        cl == SelectSeq(genome1.links, LAMBDA l : HasKey(genome2.links, l.id))
    IN fl(float_part([k \in DOMAIN cn |->
                         float_Node_distance(cn[k], Get(genome2.nodes, cn[k].id))],
                     Len(genome1.nodes), Len(genome2.nodes), p)
          + float_part([k \in DOMAIN cl |->
                           float_Link_distance(cl[k], Get(genome2.links, cl[k].id))],
                       Len(genome1.links), Len(genome2.links), p),
          1)

\* the orders in which a dict can hold keys of S
RECURSIVE Orders(_)
Orders(S) ==
    {<<>>} \cup UNION {{<<x>> \o t : t \in Orders(S \ {x})} : x \in S}

\* the genomes of one input and one output after at most one add-node
\* mutation and any deletions and additions of links: the nodes in the order
\* they were added, the links in any order (a deleted link that is added
\* again goes to the end of the dict), with any weights
DGenomes ==
    {[nodes |-> [n \in 1..(inputs + outputs + 1) |-> [id |-> n - 1, bias |-> 0]],
      links |-> [k \in DOMAIN o |->
                    [id |-> o[k], weight |-> w[k], enabled |-> TRUE, frozen |-> FALSE]]] :
        o \in Orders(0..2), w \in [1..3 -> DWeights]}
    \cup
    {[nodes |-> [n \in 1..(inputs + outputs) |-> [id |-> n - 1, bias |-> 0]],
      links |-> [k \in DOMAIN o |->
                    [id |-> o[k], weight |-> w[k], enabled |-> TRUE, frozen |-> FALSE]]] :
        o \in Orders({0}), w \in [1..1 -> DWeights]}

\* a caller holds two genomes
InitDistance ==
    /\ \E genome1 \in DGenomes, genome2 \in DGenomes :
        last = [op |-> "arguments", genome1 |-> genome1, genome2 |-> genome2]
    /\ params = [compatibility_disjoint_coefficient |-> 1]
    /\ innov_record = InnovationRecord(inputs, outputs)
    /\ calls = {}
    /\ genomes = <<>>
    /\ population = NoPopulation
    /\ infos = <<>>
    /\ frame = NoFrame

\* get_genomes_distance of the two genomes both ways, and of the first with
\* itself
CallDistance ==
    /\ last.op = "arguments"
    /\ last' = [op |-> "get_genomes_distance",
                genome1 |-> last.genome1, genome2 |-> last.genome2,
                d11 |-> float_genomes_distance(last.genome1, last.genome1, params),
                d12 |-> float_genomes_distance(last.genome1, last.genome2, params),
                d21 |-> float_genomes_distance(last.genome2, last.genome1, params)]
    /\ UNCHANGED <<innov_record, calls, genomes, popvars>>

SpecDistance == InitDistance /\ [][CallDistance]_vars

\* C15: the distance of a genome to itself is 0, and the distance of two
\* genomes is the same in both directions
C15_DistanceSymmetric ==
    last.op = "get_genomes_distance" =>
        /\ last.d11 = 0
        /\ last.d12 = last.d21

\* ------------------------------------- filter_stagnant_species on any set

\* at most FSpecies species, with stagnant counters up to MaxStagnant and
\* max_stagnation up to MaxMaxStagnation
FSpecies == 3
MaxStagnant == 2
MaxMaxStagnation == 2

\* a caller holds a list of species, in any order of their ids, with any
\* stagnant counters
InitFilter ==
    /\ \E n \in 0..FSpecies :
        /\ \E st \in [0..(n - 1) -> 0..MaxStagnant] :
              infos = [id \in 0..(n - 1) |->
                          [SpeciesInfo(0) EXCEPT !.stagnant = st[id]]]
        /\ \E o \in {o \in Orders(0..(n - 1)) : Len(o) = n} :
              last = [op |-> "arguments",
                      species_set |-> [k \in 1..n |-> [id |-> o[k], genomes |-> <<0>>]]]
    /\ \E m \in 0..MaxMaxStagnation : params = [max_stagnation |-> m]
    /\ innov_record = InnovationRecord(inputs, outputs)
    /\ calls = {}
    /\ genomes = <<>>
    /\ population = NoPopulation
    /\ frame = NoFrame

\* filter_stagnant_species(species_set, params): the list it returns, or the
\* RuntimeError it raises when no species remains
CallFilter ==
    /\ last.op = "arguments"
    /\ \E r \in {filter_stagnant_species(last.species_set, infos, params)} :
        last' = [op |-> "filter_stagnant_species",
                 species_set |-> last.species_set,
                 raised |-> (r = <<>>),
                 remaining_species |-> [k \in DOMAIN r |-> last.species_set[r[k]]]]
    /\ UNCHANGED <<innov_record, calls, genomes, popvars>>

SpecFilter == InitFilter /\ [][CallFilter]_vars

\* C16: filter_stagnant_species returns, in their order, exactly the species
\* whose stagnant counter is at most max_stagnation, and raises instead of
\* returning an empty list
C16_FilterKeepsNonStagnant ==
    last.op = "filter_stagnant_species" =>
        LET keep == SelectSeq(last.species_set,
                              LAMBDA sp : infos[sp.id].stagnant <= params.max_stagnation)
        IN IF keep = <<>> THEN last.raised
           ELSE ~last.raised /\ last.remaining_species = keep

\* three species, of which the middle one is dropped and the species at
\* max_stagnation is kept
C16_Witness ==
    /\ last.op = "filter_stagnant_species"
    /\ Len(last.species_set) = FSpecies
    /\ infos[last.species_set[2].id].stagnant > params.max_stagnation
    /\ infos[last.species_set[3].id].stagnant = params.max_stagnation
    /\ Len(last.remaining_species) = 2

\* every species is stagnant and the call has raised
C16_Extinct ==
    /\ last.op = "filter_stagnant_species"
    /\ Len(last.species_set) = FSpecies
    /\ last.raised

\* ------------------------------------------- properties of Population.run

\* C17: with reset_on_extinction set, the extinction error of the stagnation
\* filter does not leave run
C17_ResetOnExtinction ==
    (last.op = "raise" /\ last.error = "no remaining species") =>
        ~params.reset_on_extinction

\* the best fitness among the genomes of the population
BestFitness(G, list) == Max({G[list[i]].fitness : i \in DOMAIN list})

\* C18: a pass of run's loop whose evaluation yields a best fitness of at
\* least fitness_threshold ends the run: the species, the registry and the
\* generation are as before the pass, and the best genome kept has a fitness
\* of at least fitness_threshold
C18_StopsAtThreshold ==
    [][(/\ frame.pc = "loop"
        /\ ~(params.times # 0 /\ frame.itterations > params.times)
        /\ population'.genomes # <<>>
        /\ BestFitness(genomes', population'.genomes) >= params.fitness_threshold) =>
          /\ frame'.pc = "done"
          /\ population'.species = population.species
          /\ population'.prev_species_info = population.prev_species_info
          /\ population'.generation = population.generation
          /\ Range(population'.genomes) = Range(population.genomes)
          /\ infos' = infos
          /\ innov_record' = innov_record
          /\ genomes'[frame'.best_genome[1]].fitness >= params.fitness_threshold
    ]_vars

\* run has returned a genome at the threshold in its second generation, where
\* the best genome of the first generation is still in the population
C18_Witness ==
    /\ frame.pc = "done"
    /\ last.op = "return"
    /\ population.generation = 1
    /\ genomes[frame.best_genome[1]].fitness >= params.fitness_threshold
    /\ \E g \in Range(population.genomes) :
          genomes[g].fitness < params.fitness_threshold

\* ---------------------------------------------------- ParallelEvaluator

\* evaluate is called with at most EvalGenomes genomes on a pool of
\* NumWorkers workers
EvalGenomes == 3
NumWorkers == 2

\* a join that reads the jobs from the last to the first
zip_jobs_Reversed(jobs, list, k) ==
    [job |-> jobs[Len(jobs) + 1 - k], genome |-> list[k]]

\* zip(jobs, genomes): the k-th pair
zip_jobs(jobs, list, k) == [job |-> jobs[k], genome |-> list[k]]

\* ParallelEvaluator(num_workers, eval_function, timeout) and the call of
\* evaluate(genomes, opponents): no job yet
InitEval ==
    /\ \E n \in 1..EvalGenomes, timeout \in BOOLEAN :
        \E built \in {new_genomes(<<>>, InnovationRecord(inputs, outputs),
                                  [i \in 1..n |-> 0])} :
            /\ genomes = built.G
            /\ innov_record = built.rec
            /\ frame = [pc |-> "dispatch", k |-> 1, jobs |-> <<>>,
                        list |-> [i \in 1..n |-> i - 1],
                        timeout |-> timeout, completed |-> 0]
    /\ calls = {}
    /\ last = NoOp
    /\ population = NoPopulation
    /\ infos = <<>>
    /\ params = [num_workers |-> NumWorkers]

\* jobs.append(self.pool.apply_async(self.eval_function, (genome, opponents)))
Dispatch ==
    /\ frame.pc = "dispatch"
    /\ frame' = [frame EXCEPT
                    !.jobs = Append(@, [genome |-> frame.list[frame.k],
                                        state |-> "queued", result |-> 0, order |-> 0]),
                    !.k = IF frame.k = Len(frame.list) THEN 1 ELSE @ + 1,
                    !.pc = IF frame.k = Len(frame.list) THEN "join" ELSE @]
    /\ last' = [op |-> "apply_async"]
    /\ UNCHANGED <<innov_record, calls, genomes, population, infos, params>>

\* a free worker of the pool takes the oldest task of the queue
WorkerTake ==
    /\ \E j \in DOMAIN frame.jobs :
        /\ frame.jobs[j].state = "queued"
        /\ \A i \in 1..(j - 1) : frame.jobs[i].state # "queued"
        /\ Cardinality({i \in DOMAIN frame.jobs : frame.jobs[i].state = "running"})
              < params.num_workers
        /\ frame' = [frame EXCEPT !.jobs[j].state = "running"]
    /\ last' = [op |-> "take"]
    /\ UNCHANGED <<innov_record, calls, genomes, population, infos, params>>

\* a worker ends its task: eval_function(genome, opponents) has returned a
\* value, the result of the job
WorkerDone ==
    /\ \E j \in DOMAIN frame.jobs, f \in Fitnesses :
        /\ frame.jobs[j].state = "running"
        /\ frame' = [frame EXCEPT !.jobs[j].state = "done",
                                  !.jobs[j].result = f,
                                  !.jobs[j].order = frame.completed + 1,
                                  !.completed = @ + 1]
    /\ last' = [op |-> "done"]
    /\ UNCHANGED <<innov_record, calls, genomes, population, infos, params>>

\* genome.fitness = job.get(timeout=self.timeout), the job being done
JobGet ==
    /\ frame.pc = "join"
    /\ \E pair \in {zip_jobs(frame.jobs, frame.list, frame.k)} :
        /\ pair.job.state = "done"
        /\ genomes' = [genomes EXCEPT ![pair.genome].fitness = pair.job.result]
    /\ frame' = [frame EXCEPT
                    !.k = @ + 1,
                    !.pc = IF frame.k = Len(frame.list) THEN "returned" ELSE @]
    /\ last' = [op |-> "get"]
    /\ UNCHANGED <<innov_record, calls, population, infos, params>>

\* job.get(timeout=self.timeout) raises TimeoutError: the job is not done
\* when the timeout ends
JobTimeout ==
    /\ frame.pc = "join"
    /\ frame.timeout
    /\ zip_jobs(frame.jobs, frame.list, frame.k).job.state # "done"
    /\ frame' = [frame EXCEPT !.pc = "raised"]
    /\ last' = [op |-> "raise", error |-> "TimeoutError"]
    /\ UNCHANGED <<innov_record, calls, genomes, population, infos, params>>

NextEval ==
    \/ Dispatch
    \/ WorkerTake
    \/ WorkerDone
    \/ JobGet
    \/ JobTimeout

SpecEval == InitEval /\ [][NextEval]_vars

\* C19: when evaluate returns, one job per genome was dispatched, every job
\* is done, and every genome has the fitness that the evaluation function
\* returned for it
C19_ResultsJoinedToGenomes ==
    frame.pc = "returned" =>
        /\ Len(frame.jobs) = Len(frame.list)
        /\ \A k \in DOMAIN frame.jobs :
            /\ frame.jobs[k].state = "done"
            /\ genomes[frame.jobs[k].genome].fitness = frame.jobs[k].result

\* evaluate has returned after the task of the second genome ended before the
\* task of the first, with different values
C19_Witness ==
    /\ frame.pc = "returned"
    /\ Len(frame.list) = EvalGenomes
    /\ frame.jobs[2].order < frame.jobs[1].order
    /\ frame.jobs[2].result # frame.jobs[1].result

\* ------------------------------------------- one genome under mutate passes

\* at most PassBudget draws of a pass fire
PassBudget == 2

\* genome.mutate()
MutatePass ==
    \E g \in DOMAIN genomes :
        \E out \in mutate(genomes, innov_record, g, PassBudget) :
            /\ Within(out.rec, XNodes, XLinks)
            /\ genomes' = out.G
            /\ innov_record' = out.rec
            /\ last' = [op |-> "mutate", g |-> g, ops |-> out.ops]
            /\ UNCHANGED <<calls, popvars>>

NextPass ==
    \/ NewGenomeM
    \/ MutatePass

SpecPass == InitGenomes /\ [][NextPass]_vars

\* the place of a method in the order add-node, delete-node, add-link,
\* delete-link, toggle-enable, node attributes, link attributes
PlaceInPass(op) ==
    CASE op = "mutate_add_node" -> 1
      [] op = "mutate_delete_node" -> 2
      [] op = "mutate_add_link" -> 3
      [] op = "mutate_delete_link" -> 4
      [] op = "mutate_toggle_enable" -> 5
      [] op = "mutate_node" -> 6
      [] op = "mutate_link" -> 7

\* C20: the methods that a mutate pass calls are called in the order
\* add-node, delete-node, add-link, delete-link, toggle-enable, then the
\* attribute mutations of the nodes and of the links; add-node comes before
\* delete-node
C20_AddBeforeDelete ==
    last.op = "mutate" =>
        \A i, j \in DOMAIN last.ops :
            i < j => PlaceInPass(last.ops[i]) <= PlaceInPass(last.ops[j])

\* ------------------------------------------- properties of toggle-enable

\* C21: mutate_toggle_enable never orphans the source of the chosen link: a
\* disabled chosen link becomes enabled, and an enabled chosen link is
\* disabled only if afterwards its in_node still has another enabled
\* outgoing link; otherwise the genome is left as it is
C21_ToggleNeverOrphans ==
    [][(last'.op = "mutate_toggle_enable" /\ DOMAIN genomes[last'.g].links # {}) =>
        LET g == last'.g
            L == genomes[g].links[last'.link]
            after == genomes'[g]
            others == {k \in DOMAIN after.links \ {L.id} :
                        /\ after.links[k].in_node = L.in_node
                        /\ after.links[k].enabled}
        IN /\ ~L.enabled => after.links[L.id].enabled
           /\ (L.enabled /\ ~after.links[L.id].enabled) => others # {}
           /\ (L.enabled /\ after.links[L.id].enabled) => after = genomes[g]
    ]_vars

\* the same with the links counted as the code counts them: enabled or not
C21_ToggleCountsAllLinks ==
    [][(last'.op = "mutate_toggle_enable" /\ DOMAIN genomes[last'.g].links # {}) =>
        LET g == last'.g
            L == genomes[g].links[last'.link]
            after == genomes'[g]
            others == {k \in DOMAIN after.links \ {L.id} :
                        after.links[k].in_node = L.in_node}
        IN /\ ~L.enabled => after.links[L.id].enabled
           /\ (L.enabled /\ ~after.links[L.id].enabled) => others # {}
           /\ (L.enabled /\ after.links[L.id].enabled) =>
                (after = genomes[g] /\ others = {})
    ]_vars

\* ------------------------------------------------ feed-forward layers

\* one pass of required_for_output's loop and the passes after it: t holds
\* the sources, outside s, of the links that enter s
RECURSIVE required_loop(_, _, _, _)
required_loop(ins, links, required, s) ==
    LET t == {links[k][1] : k \in {k \in DOMAIN links :
                                links[k][2] \in s /\ links[k][1] \notin s}}
        layer_nodes == t \ ins
    IN IF t = {} \/ layer_nodes = {} THEN required
       ELSE required_loop(ins, links, required \cup layer_nodes, s \cup t)

\* required_for_output(inputs, outputs, links)
required_for_output(ins, outs, links) == required_loop(ins, links, outs, outs)

\* a layer that takes every required candidate, whatever its other sources
next_layer_AnySource(links, required, s) ==
    {links[k][2] : k \in {k \in DOMAIN links :
                            links[k][1] \in s /\ links[k][2] \notin s}} \cap required

\* the set t of one pass of get_feed_forward_layers: the candidates c that
\* are required and have every source in s
next_layer(links, required, s) ==
    LET c == {links[k][2] : k \in {k \in DOMAIN links :
                                    links[k][1] \in s /\ links[k][2] \notin s}}
    IN {n \in c : /\ n \in required
                  /\ \A k \in DOMAIN links : links[k][2] = n => links[k][1] \in s}

\* the `while True` of get_feed_forward_layers
RECURSIVE layers_loop(_, _, _, _)
layers_loop(links, required, s, layers) ==
    LET t == next_layer(links, required, s) IN
    IF t = {} THEN layers
    ELSE layers_loop(links, required, s \cup t, Append(layers, t))

\* get_feed_forward_layers(inputs, outputs, links)
get_feed_forward_layers(ins, outs, links) ==
    layers_loop(links, required_for_output(ins, outs, links), ins, <<>>)

\* a caller holds the input nodes, the output nodes (no node is both: the
\* function asserts it) and a list of links over the nodes 0..CNodes-1
InitLayers ==
    /\ \E ins \in SUBSET (0..(CNodes - 1)) :
        \E outs \in SUBSET ((0..(CNodes - 1)) \ ins), links \in Lists(MaxConn) :
            last = [op |-> "arguments", inputs |-> ins, outputs |-> outs,
                    links |-> links]
    /\ innov_record = InnovationRecord(inputs, outputs)
    /\ calls = {}
    /\ genomes = <<>>
    /\ population = NoPopulation
    /\ infos = <<>>
    /\ params = <<>>
    /\ frame = NoFrame

CallLayers ==
    /\ last.op = "arguments"
    /\ \E layers \in {get_feed_forward_layers(last.inputs, last.outputs, last.links)} :
        last' = [op |-> "get_feed_forward_layers", inputs |-> last.inputs,
                 outputs |-> last.outputs, links |-> last.links,
                 required |-> required_for_output(last.inputs, last.outputs, last.links),
                 layers |-> layers]
    /\ UNCHANGED <<innov_record, calls, genomes, popvars>>

SpecLayers == InitLayers /\ [][CallLayers]_vars

\* C22: get_feed_forward_layers ends (no layer is empty, so there are at
\* most as many layers as nodes) and returns layers in which every node is in
\* at most one layer, no input node appears, every layered node is required
\* (it is an output or has a path to one), and every link into a node of
\* layer k has its source among the inputs or in a layer before k
C22_LayersAreFeedForward ==
    last.op = "get_feed_forward_layers" =>
        LET layers == last.layers
            E == Range(last.links)
            before(k) == last.inputs \cup UNION {layers[j] : j \in 1..(k - 1)}
        IN /\ Len(layers) <= CNodes
           /\ \A k \in DOMAIN layers :
                /\ layers[k] # {}
                /\ layers[k] \cap before(k) = {}
                /\ layers[k] \subseteq last.required
                /\ \A n \in layers[k] :
                    /\ \E o \in last.outputs : o \in ReachFrom(E, {n}) \cup {n}
                    /\ \A e \in E : e[2] = n => e[1] \in before(k)

\* input 0 feeds hidden node 2, which feeds output 1; node 3 feeds only
\* itself: the layers are {2} and then {1}
C22_Witness ==
    /\ last.op = "get_feed_forward_layers"
    /\ last.inputs = {0}
    /\ last.outputs = {1}
    /\ last.links = <<<<0, 2>>, <<2, 1>>, <<3, 3>>>>
    /\ last.layers = <<{2}, {1}>>

\* ------------------------------------------------ FeedForwardNetwork

\* [l.simple_link for l in genome.links.values() if l.enabled]
slinks(gen) ==
    LET keys == SortedSeq({k \in DOMAIN gen.links : gen.links[k].enabled})
    IN [j \in DOMAIN keys |-> simple_link(gen.links[keys[j]])]

\* FeedForwardNetwork.from_genome: the input nodes, the output nodes, and the
\* nodes that get an evaluator, layer by layer
from_genome(gen) ==
    [inputs |-> get_nodes_by_type(gen, "input"),
     outputs |-> get_nodes_by_type(gen, "output"),
     evaluators |-> get_feed_forward_layers(get_nodes_by_type(gen, "input"),
                                            get_nodes_by_type(gen, "output"),
                                            slinks(gen))]

\* FeedForwardNetwork.activate: the nodes whose entry of self.values is
\* assigned before the result is read, the inputs and then every node that
\* has an evaluator
activate(net) == net.inputs \cup UNION Range(net.evaluators)

\* C23: in the network of every genome reachable by mutations from a default
\* genome, activate has evaluated every output node when it reads the
\* result
C23_OutputsEvaluated ==
    \A g \in DOMAIN genomes :
        from_genome(genomes[g]).outputs \subseteq activate(from_genome(genomes[g]))

\* --------------------------------------- properties of the assignment

\* C24: in a speciate call of run, each genome of the population that was
\* not selected as a representative is a member of the species whose
\* representative is nearest among the species that existed when its turn
\* came (those of prev_species_info and those founded by genomes before it
\* in the list) and were nearer than compatibility_threshold; and it is the
\* representative of a species with a fresh id exactly when there was none
C24_AssignedToNearest ==
    [][(frame.pc = "returned" /\ frame'.pc = "loop") =>
        LET list == frame.offspring
            prev == Range(population.prev_species_info)
            sp == population'.species
            rep(i) == infos'[sp[i].id].representative
            selected == {rep(i) : i \in {i \in DOMAIN sp : sp[i].id \in prev}}
            pos(g) == Min({j \in DOMAIN list : list[j] = g})
            existed(i, g) == sp[i].id \in prev \/ pos(rep(i)) < pos(g)
            d(i, g) == get_genomes_distance(genomes[rep(i)], genomes[g], params)
            candidates(g) == {i \in DOMAIN sp :
                                /\ existed(i, g)
                                /\ Less(d(i, g), params.compatibility_threshold)}
            founded(g) == {i \in DOMAIN sp :
                                /\ sp[i].id \notin prev
                                /\ sp[i].id >= innov_record.species_counter
                                /\ rep(i) = g}
        IN \A g \in Range(list) \ selected :
            IF candidates(g) # {}
            THEN /\ founded(g) = {}
                 /\ \E i \in candidates(g) :
                        /\ g \in Range(sp[i].genomes)
                        /\ \A j \in candidates(g) : ~Less(d(j, g), d(i, g))
            ELSE founded(g) # {}
    ]_vars

\* the same for the genomes that the loop of speciate iterates over, those
\* that select_new_representatives has left in unspeciated
C24_LoopAssignsToNearest ==
    [][(frame.pc = "returned" /\ frame'.pc = "loop") =>
        LET list == frame.offspring
            prev == Range(population.prev_species_info)
            sp == population'.species
            rep(i) == infos'[sp[i].id].representative
            unspeciated ==
                select_new_representatives(genomes, list, population.prev_species_info,
                                           infos, params).unspeciated
            pos(g) == Min({j \in DOMAIN list : list[j] = g})
            existed(i, g) == sp[i].id \in prev \/ pos(rep(i)) < pos(g)
            d(i, g) == get_genomes_distance(genomes[rep(i)], genomes[g], params)
            candidates(g) == {i \in DOMAIN sp :
                                /\ existed(i, g)
                                /\ Less(d(i, g), params.compatibility_threshold)}
            founded(g) == {i \in DOMAIN sp :
                                /\ sp[i].id \notin prev
                                /\ sp[i].id >= innov_record.species_counter
                                /\ rep(i) = g}
        IN \A g \in Range(unspeciated) :
            IF candidates(g) # {}
            THEN /\ founded(g) = {}
                 /\ \E i \in candidates(g) :
                        /\ g \in Range(sp[i].genomes)
                        /\ \A j \in candidates(g) : ~Less(d(j, g), d(i, g))
            ELSE founded(g) # {}
    ]_vars

\* -------------------------------------- properties of the stagnation

\* C25: when reproduce assigns the species fitness of a generation, a species
\* whose fitness fell below its previous fitness has its stagnant counter
\* raised by one, and every other species has it reset to 0
C25_StagnationCounted ==
    [][frame.pc = "reproduce" =>
        \A i \in Range(frame.species_set) :
            LET id == population.species[i].id IN
            IF Less(infos'[id].previous_fitness, infos[id].previous_fitness)
            THEN infos'[id].stagnant = infos[id].stagnant + 1
            ELSE infos'[id].stagnant = 0
    ]_vars

\* no stagnant counter ever leaves 0 during run
C25_StagnantStaysZero == \A id \in DOMAIN infos : infos[id].stagnant = 0

\* ------------------------------- run with the threshold out of reach

\* the Parameters of a run that no fitness ends: the fitness threshold is
\* above every fitness, and times is 0 or Times
RunParameters ==
    [neat_population : {PopSize},
     population : {PopSize},
     min_species_size : {0},
     elitism : 0..PopElitism,
     elitism_threshold : {1},
     survival_rate : SurvivalRates,
     max_stagnation : {MaxStagnation},
     reset_on_extinction : {FALSE},
     fitness_threshold : {Max(Fitnesses) + 1},
     compatibility_threshold : {<<1, 1>>},
     compatibility_disjoint_coefficient : {1},
     times : {0, Times}]

InitRun == InitPopulation(RunParameters)

SpecRun == InitRun /\ [][NextPop]_vars

\* C26: the best genome that run tracks is a snapshot: while the same genome
\* stays recorded, no step alters its genes or its fitness, and the fitness
\* of the tracked best genome never decreases
C26_BestIsSnapshot ==
    [][(frame.best_genome # <<>> /\ frame'.best_genome # <<>>) =>
        LET old == frame.best_genome[1]
            new == frame'.best_genome[1]
        IN /\ new = old => genomes'[old] = genomes[old]
           /\ genomes'[new].fitness >= genomes[old].fitness
    ]_vars

\* the fitness alone: the fitness of the tracked best genome never decreases
C26_BestFitnessNeverDecreases ==
    [][(frame.best_genome # <<>> /\ frame'.best_genome # <<>>) =>
        genomes'[frame'.best_genome[1]].fitness >= genomes[frame.best_genome[1]].fitness
    ]_vars

\* a step of run's loop that evaluates the genomes: it raises, returns, or
\* goes on to reproduce
EvaluationRound ==
    /\ frame.pc = "loop"
    /\ last'.op \in {"raise", "return"} \/ frame'.pc = "reproduce"

\* C27: with times = N >= 0, run evaluates the genomes in at most N + 1
\* rounds: the round that starts after `itterations` completed passes is
\* round itterations + 1
C27_AtMostTimesPlusOneRounds ==
    [][EvaluationRound => frame.itterations + 1 <= params.times + 1]_vars

\* the same for the values of times other than 0
C27_BoundedForNonZeroTimes ==
    [][(EvaluationRound /\ params.times # 0) =>
        frame.itterations + 1 <= params.times + 1]_vars

\* ------------------------------- the registry under interleaved callers

\* at most NumCallers calls of the registry are in progress at a time
NumCallers == 2

\* self.links_record.get(link) / self.nodes_record.get(link_to_split): the
\* id in a one-element sequence, or <<>> for None
record_get(r, op, key) ==
    IF op = "link"
    THEN IF key \in DOMAIN r.links_record THEN <<r.links_record[key]>> ELSE <<>>
    ELSE IF key[1] \in DOMAIN r.nodes_record THEN <<r.nodes_record[key[1]]>> ELSE <<>>

\* the statements after the lookup: the id is the counter, the key is
\* recorded with it, and the counter advances
allocate_and_record(r, op, key) ==
    IF op = "link"
    THEN [id |-> r.links_counter,
          rec |-> [r EXCEPT !.links_record =
                                [k \in DOMAIN r.links_record \cup {key} |->
                                    IF k = key THEN r.links_counter
                                    ELSE r.links_record[k]],
                            !.links_counter = @ + 1]]
    ELSE [id |-> r.nodes_counter,
          rec |-> [r EXCEPT !.nodes_record =
                                [k \in DOMAIN r.nodes_record \cup {key[1]} |->
                                    IF k = key[1] THEN r.nodes_counter
                                    ELSE r.nodes_record[k]],
                            !.nodes_counter = @ + 1]]

\* the callers are idle, and the registry is new
InitRace ==
    /\ innov_record = InnovationRecord(inputs, outputs)
    /\ calls = {}
    /\ genomes = <<>>
    /\ last = NoOp
    /\ population = NoPopulation
    /\ infos = <<>>
    /\ params = <<>>
    /\ frame = [pc |-> "callers",
                callers |-> [c \in 1..NumCallers |-> [pc |-> "idle"]]]

\* a caller enters get_link_id(a, b) or get_node_id(l) and makes the lookup:
\* it returns the recorded id, or goes on to allocate one
Lookup ==
    \E c \in 1..NumCallers, op \in {"link", "node"} :
        \E key \in IF op = "link" THEN (0..MaxArg) \X (0..MaxArg)
                   ELSE {<<l>> : l \in 0..MaxArg} :
            LET found == record_get(innov_record, op, key) IN
            /\ frame.callers[c].pc = "idle"
            /\ IF found # <<>>
               THEN /\ calls' = calls \cup {[op |-> op, key |-> key, id |-> found[1]]}
                    /\ last' = [op |-> "return", caller |-> c, id |-> found[1]]
                    /\ UNCHANGED frame
               ELSE /\ frame' = [frame EXCEPT !.callers[c] =
                                    [pc |-> "allocate", op |-> op, key |-> key]]
                    /\ last' = [op |-> "lookup", caller |-> c]
                    /\ UNCHANGED calls
            /\ UNCHANGED <<innov_record, genomes, population, infos, params>>

\* a caller that found no id allocates one, records it and returns it
AllocateAndRecord ==
    \E c \in 1..NumCallers :
        /\ frame.callers[c].pc = "allocate"
        /\ \E res \in {allocate_and_record(innov_record, frame.callers[c].op,
                                           frame.callers[c].key)} :
            /\ res.rec.links_counter <= MaxAlloc + 1
            /\ res.rec.nodes_counter <= inputs + outputs + MaxAlloc + 1
            /\ innov_record' = res.rec
            /\ calls' = calls \cup {[op |-> frame.callers[c].op,
                                     key |-> frame.callers[c].key, id |-> res.id]}
            /\ last' = [op |-> "return", caller |-> c, id |-> res.id]
        /\ frame' = [frame EXCEPT !.callers[c] = [pc |-> "idle"]]
        /\ UNCHANGED <<genomes, population, infos, params>>

NextRace ==
    \/ Lookup
    \/ AllocateAndRecord

SpecRace == InitRace /\ [][NextRace]_vars

\* C28: when calls for one key interleave at the lookup step and the
\* allocate-and-record step, every call for the key returns the same id, and
\* each counter has advanced by one per key
C28_InterleavedSameId ==
    /\ \A x \in calls, y \in calls : (x.op = y.op /\ x.key = y.key) => x.id = y.id
    /\ innov_record.links_counter = Cardinality(DOMAIN innov_record.links_record)
    /\ innov_record.nodes_counter =
            inputs + outputs + Cardinality(DOMAIN innov_record.nodes_record)

\* ------------------------------------------ invariants of the registry

\* what holds of the registry in every state: distinct keys have distinct
\* ids, node ids start at inputs + outputs, and the counters count the keys
RegistryCounts ==
    LET r == innov_record IN
    /\ \A k1 \in DOMAIN r.links_record, k2 \in DOMAIN r.links_record :
            k1 # k2 => r.links_record[k1] # r.links_record[k2]
    /\ \A l1 \in DOMAIN r.nodes_record, l2 \in DOMAIN r.nodes_record :
            l1 # l2 => r.nodes_record[l1] # r.nodes_record[l2]
    /\ \A l \in DOMAIN r.nodes_record : r.nodes_record[l] >= inputs + outputs
    /\ \A x \in calls : x.op = "node" => x.id >= inputs + outputs
    /\ r.links_counter = Cardinality(DOMAIN r.links_record)
    /\ r.nodes_counter = inputs + outputs + Cardinality(DOMAIN r.nodes_record)

\* C29: after any sequence of registry operations, distinct link keys have
\* distinct link ids and distinct split links distinct node ids, every node
\* id is at least inputs + outputs, links_counter is the number of recorded
\* link keys and nodes_counter is inputs + outputs plus the number of
\* recorded splits; and get_species_id and get_genome_id never return a value
\* they returned before
C29_RegistryInvariants ==
    /\ []RegistryCounts
    /\ [][(last'.op = "get_species_id" =>
                \A x \in calls : x.op = "species" => x.id # last'.id)
          /\ (last'.op = "get_genome_id" =>
                \A x \in calls : x.op = "genome" => x.id # last'.id)]_vars

\* two link keys and two split links are recorded, and two species ids and
\* two genome ids have been handed out
C29_Witness ==
    /\ Cardinality(DOMAIN innov_record.links_record) = 2
    /\ Cardinality(DOMAIN innov_record.nodes_record) = 2
    /\ Cardinality({x \in calls : x.op = "species"}) = 2
    /\ Cardinality({x \in calls : x.op = "genome"}) = 2
    /\ \E x \in calls : x.op = "link" /\ x.id # last.id /\ last.op = "get_link_id"

\* ------------------------------------ link ids across the genomes

\* C30: in every genome reachable by mutations and crossovers on one
\* registry, a link is stored under its id and its id is the registry's id of
\* its (in_node, out_node) pair, so two genomes that hold a link id agree on
\* its endpoints; and for a pair that a genome does not hold, the id that
\* get_link_id returns is not among the genome's link ids: the assertion
\* `link.id not in self.links` of mutate_add_link holds
C30_LinkIdIsRegistryId ==
    /\ \A g \in DOMAIN genomes : \A k \in DOMAIN genomes[g].links :
        LET l == genomes[g].links[k] IN
        /\ l.id = k
        /\ simple_link(l) \in DOMAIN innov_record.links_record
        /\ innov_record.links_record[simple_link(l)] = k
    /\ \A g \in DOMAIN genomes, h \in DOMAIN genomes :
        \A k \in DOMAIN genomes[g].links \cap DOMAIN genomes[h].links :
            simple_link(genomes[g].links[k]) = simple_link(genomes[h].links[k])
    /\ \A g \in DOMAIN genomes :
        \A i \in DOMAIN genomes[g].nodes, o \in DOMAIN genomes[g].nodes :
            <<i, o>> \notin Pairs(genomes[g]) =>
                get_link_id(innov_record, i, o).id \notin DOMAIN genomes[g].links

\* a crossover has made a child of two links or more, and some genome lacks
\* a pair over its nodes, one that mutate_add_link can draw, whose registry
\* id is a link id of another genome
C30_Witness ==
    /\ last.op = "crossover"
    /\ Cardinality(DOMAIN genomes[last.child].links) >= 2
    /\ \E g \in DOMAIN genomes :
        \E i \in DOMAIN genomes[g].nodes \ get_nodes_by_type(genomes[g], "output"),
           o \in DOMAIN genomes[g].nodes \ get_nodes_by_type(genomes[g], "input") :
            /\ i # o
            /\ <<i, o>> \notin Pairs(genomes[g])
            /\ <<i, o>> \in DOMAIN innov_record.links_record
            /\ \E h \in DOMAIN genomes \ {g} :
                innov_record.links_record[<<i, o>>] \in DOMAIN genomes[h].links

====
